---- MODULE Spec2Model ----
(***************************************************************************)
(* ReactorExperiment: the tick engine of the hex-grid thermal simulation.  *)
(*                                                                         *)
(* The model follows tickSimulation (thermo hex_tick), the hexlib kernel   *)
(* it calls (directions, rings, hexCornerLOS) and ThermoGame.dischargeBank.*)
(*                                                                         *)
(* Numbers.  The program computes in IEEE doubles; the model computes in   *)
(* exact rationals <<n, d>> (d > 0, lowest terms).  Pixel geometry lives   *)
(* in Q(sqrt 3) and is modelled exactly as pairs <<a, b>> standing for     *)
(* (a + b*sqrt 3) / 20.                                                    *)
(***************************************************************************)
EXTENDS Integers, Sequences, FiniteSets, TLC

(***************************************************************************)
(* Exact rational arithmetic (the model of JS number arithmetic).          *)
(***************************************************************************)
Abs(n) == IF n < 0 THEN -n ELSE n

RECURSIVE GCD(_, _)
GCD(a, b) == IF b = 0 THEN a ELSE GCD(b, a % b)

\* the rational n/d in lowest terms with a positive denominator (d # 0)
Q(n, d) ==
    LET g == GCD(Abs(n), Abs(d))
        s == IF d < 0 THEN -1 ELSE 1
    IN  <<(s * n) \div g, (s * d) \div g>>

Zero == <<0, 1>>
One == <<1, 1>>
I(n) == <<n, 1>>

Lcm(a, b) == (a \div GCD(a, b)) * b

RAdd(p, q) ==
    LET l == Lcm(p[2], q[2])
    IN  Q(p[1] * (l \div p[2]) + q[1] * (l \div q[2]), l)

RNeg(p) == <<-p[1], p[2]>>

RSub(p, q) == RAdd(p, RNeg(q))

\* cross-reduced product: no intermediate exceeds the result
RMul(p, q) ==
    LET g1 == GCD(Abs(p[1]), q[2])
        g2 == GCD(Abs(q[1]), p[2])
    IN  IF p[1] = 0 \/ q[1] = 0 THEN Zero
        ELSE <<(p[1] \div g1) * (q[1] \div g2), (p[2] \div g2) * (q[2] \div g1)>>

\* p / q for q # 0
RDiv(p, q) == RMul(p, IF q[1] < 0 THEN <<-q[2], -q[1]>> ELSE <<q[2], q[1]>>)

RLt(p, q) ==
    LET l == Lcm(p[2], q[2])
    IN  p[1] * (l \div p[2]) < q[1] * (l \div q[2])

RLe(p, q) == ~RLt(q, p)

RMin(p, q) == IF RLt(q, p) THEN q ELSE p

RMax(p, q) == IF RLt(p, q) THEN q ELSE p

RAbs(p) == <<Abs(p[1]), p[2]>>

\* sum of f[k] over the finite set S.  RSumFrom adds f[k] to the sum over
\* the rest; the sum over the rest is bound as t before the addition, which
\* keeps the evaluation of a sum over many cells shallow
RECURSIVE RSum(_, _)
RECURSIVE RSumFrom(_, _, _)
RSumFrom(f, S, k) ==
    CHOOSE r \in { RAdd(f[k], t) : t \in {RSum(f, S \ {k})} } : TRUE

RSum(f, S) ==
    IF S = {} THEN Zero
    ELSE RSumFrom(f, S, CHOOSE x \in S : TRUE)

\* sum of the entries of a sequence of rationals
RECURSIVE RSumSeq(_)
RSumSeq(s) ==
    IF s = <<>> THEN Zero
    ELSE CHOOSE r \in { RAdd(Head(s), t) : t \in {RSumSeq(Tail(s))} } : TRUE

(***************************************************************************)
(* Hex coordinate kernel (hexlib).  A cube coordinate is a triple          *)
(* <<x, y, z>>; the string key "x,y,z" of hexCubeKey is modelled by the    *)
(* triple itself (the key is injective on integer triples).                *)
(***************************************************************************)
hexCubeKey(c) == <<c[1], c[2], c[3]>>

parseHexCubeKey(k) == <<k[1], k[2], k[3]>>

hexAdd(a, b) == <<a[1] + b[1], a[2] + b[2], a[3] + b[3]>>

hexSub(a, b) == <<a[1] - b[1], a[2] - b[2], a[3] - b[3]>>

hexScale(a, k) == <<a[1] * k, a[2] * k, a[3] * k>>

hexLength(c) == (Abs(c[1]) + Abs(c[2]) + Abs(c[3])) \div 2

hexDistance(a, b) == hexLength(hexSub(a, b))

HEX_CUBE_DIRS ==
    << <<1, -1, 0>>, <<1, 0, -1>>, <<0, 1, -1>>,
       <<-1, 1, 0>>, <<-1, 0, 1>>, <<0, -1, 1>> >>

\* dirIndex is reduced mod 6; sequences are 1-based
hexDir(dirIndex) == HEX_CUBE_DIRS[(((dirIndex % 6) + 6) % 6) + 1]

hexNeighbor(c, dirIndex) == hexAdd(c, hexDir(dirIndex))

hexCubeToAxial(c) == <<c[1], c[3]>>

IMin(a, b) == IF a < b THEN a ELSE b

IMax(a, b) == IF a < b THEN b ELSE a

\* all cubes within distance R of center, as the set the loops enumerate
hexRange(center, R) ==
    { hexAdd(center, <<p[1], p[2], -p[1] - p[2]>>) :
        p \in { q \in (-R .. R) \X (-R .. R) :
                  /\ q[2] >= IMax(-R, -q[1] - R)
                  /\ q[2] <= IMin(R, -q[1] + R) } }

generateHexagon(R) == hexRange(<<0, 0, 0>>, R)

\* the walk of hexRing: side 0..5, R steps a side, starting at dir 4 scaled
RECURSIVE hexRingWalk(_, _, _, _)
hexRingWalk(cell, side, step, R) ==
    IF side = 6 THEN <<>>
    ELSE IF step = R THEN hexRingWalk(cell, side + 1, 0, R)
    ELSE <<cell>> \o hexRingWalk(hexNeighbor(cell, side), side, step + 1, R)

hexRing(center, R) ==
    IF R < 0 THEN <<>>
    ELSE IF R = 0 THEN <<center>>
    ELSE hexRingWalk(hexAdd(center, hexScale(hexDir(4), R)), 0, 0, R)

(***************************************************************************)
(* Pixel geometry in Q(sqrt 3).  <<a, b>> stands for (a + b*sqrt 3) / 20.  *)
(* Every coordinate hexCorners produces under LOGIC_LAYOUT (size 1) and    *)
(* every 1.1x inflated corner is such a number with integer a, b.          *)
(***************************************************************************)
SAdd(u, v) == <<u[1] + v[1], u[2] + v[2]>>

SSub(u, v) == <<u[1] - v[1], u[2] - v[2]>>

\* (a1 + b1 r)(a2 + b2 r) with r*r = 3
SMul(u, v) == <<u[1] * v[1] + 3 * u[2] * v[2], u[1] * v[2] + u[2] * v[1]>>

\* sign of a - B*sqrt 3 for a > 0, B > 0, by descent with the unit 2 + sqrt 3
RECURSIVE SPosNeg(_, _)
SPosNeg(a, B) ==
    IF a >= 2 * B THEN 1
    ELSE IF 2 * a <= 3 * B THEN -1
    ELSE SPosNeg(2 * a - 3 * B, 2 * B - a)

\* sign (-1, 0, 1) of a + b*sqrt 3
SSign(u) ==
    IF u[1] = 0 /\ u[2] = 0 THEN 0
    ELSE IF u[1] >= 0 /\ u[2] >= 0 THEN 1
    ELSE IF u[1] <= 0 /\ u[2] <= 0 THEN -1
    ELSE IF u[1] > 0 THEN SPosNeg(u[1], -u[2])
    ELSE -SPosNeg(-u[1], u[2])

SLe(u, v) == SSign(SSub(v, u)) >= 0

SMinOf(u, v) == IF SLe(u, v) THEN u ELSE v

SMaxOf(u, v) == IF SLe(u, v) THEN v ELSE u

\* LOGIC_LAYOUT: size (1,1), origin (0,0), orientation 'pointy'
\* x = sqrt3*q + sqrt3/2*r, y = 3/2*r   (times 20)
hexToPixel(c) ==
    LET q == hexCubeToAxial(c)[1]
        r == hexCubeToAxial(c)[2]
    IN  [x |-> <<0, 20 * q + 10 * r>>, y |-> <<30 * r, 0>>]

\* 20*cos(60*i) and 20*sin(60*i) for i = 0..5: layout.orientation is the
\* string 'pointy', so orientation.startAngle is undefined and startAngle = 0
CornerCos == << <<20, 0>>, <<10, 0>>, <<-10, 0>>, <<-20, 0>>, <<-10, 0>>, <<10, 0>> >>

CornerSin == << <<0, 0>>, <<0, 10>>, <<0, 10>>, <<0, 0>>, <<0, -10>>, <<0, -10>> >>

hexCorners(hex) ==
    LET center == hexToPixel(hex)
    IN  [i \in 1 .. 6 |->
            [x |-> SAdd(center.x, CornerCos[i]), y |-> SAdd(center.y, CornerSin[i])]]

\* (v * 1.1): exact, the corner offsets are multiples of 10
STimes11Tenths(v) == <<(v[1] * 11) \div 10, (v[2] * 11) \div 10>>

\* the obstacle polygon of hexCornerLOS: corners pushed out from the centre
inflated(h) ==
    LET center == hexToPixel(h)
        raw == hexCorners(h)
    IN  [i \in 1 .. 6 |->
            [x |-> SAdd(center.x, STimes11Tenths(SSub(raw[i].x, center.x))),
             y |-> SAdd(center.y, STimes11Tenths(SSub(raw[i].y, center.y)))]]

\* cross((b-a),(c-a)); only its sign is used.  The EPS = 1e-9 band of the
\* code holds no value of this lattice but 0 (a non-zero a + b*sqrt 3 with
\* |a|, |b| < 10^5 is above 10^-6 in magnitude), so "|o| <= EPS" is o = 0.
orient(a, b, c) ==
    SSign(SSub(SMul(SSub(b.x, a.x), SSub(c.y, a.y)),
               SMul(SSub(b.y, a.y), SSub(c.x, a.x))))

onSegment(a, b, p) ==
    /\ SLe(SMinOf(a.x, b.x), p.x) /\ SLe(p.x, SMaxOf(a.x, b.x))
    /\ SLe(SMinOf(a.y, b.y), p.y) /\ SLe(p.y, SMaxOf(a.y, b.y))
    /\ orient(a, b, p) = 0

segmentsIntersect(a, b, c, d) ==
    LET o1 == orient(a, b, c)
        o2 == orient(a, b, d)
        o3 == orient(c, d, a)
        o4 == orient(c, d, b)
    IN  \/ /\ (o1 > 0 /\ o2 < 0) \/ (o1 < 0 /\ o2 > 0)
           /\ (o3 > 0 /\ o4 < 0) \/ (o3 < 0 /\ o4 > 0)
        \/ (o1 = 0 /\ onSegment(a, b, c))
        \/ (o2 = 0 /\ onSegment(a, b, d))
        \/ (o3 = 0 /\ onSegment(c, d, a))
        \/ (o4 = 0 /\ onSegment(c, d, b))

\* all non-zero edge orientations of p agree (boundary counts as inside)
pointInConvexPolygon(p, poly) ==
    LET o == [i \in 1 .. 6 |-> orient(poly[i], poly[(i % 6) + 1], p)]
    IN  ~(\E i, j \in 1 .. 6 : o[i] > 0 /\ o[j] < 0)

\* an intersection test that looks at the midpoint of the segment only
segmentIntersectsPolygon_MidpointOnly(a, b, poly) ==
    LET mid2 == [x |-> SAdd(a.x, b.x), y |-> SAdd(a.y, b.y)]
        poly2 == [i \in 1 .. 6 |->
                     [x |-> SAdd(poly[i].x, poly[i].x),
                      y |-> SAdd(poly[i].y, poly[i].y)]]
    IN  pointInConvexPolygon(mid2, poly2)

\* the midpoint test doubles the coordinates instead of halving the sum
segmentIntersectsPolygon(a, b, poly) ==
    \/ \E i \in 1 .. 6 : segmentsIntersect(a, b, poly[i], poly[(i % 6) + 1])
    \/ LET mid2 == [x |-> SAdd(a.x, b.x), y |-> SAdd(a.y, b.y)]
           poly2 == [i \in 1 .. 6 |->
                        [x |-> SAdd(poly[i].x, poly[i].x),
                         y |-> SAdd(poly[i].y, poly[i].y)]]
       IN  pointInConvexPolygon(mid2, poly2)

\* the value hexCornerLOS returns when every corner pair is blocked
NaN == -1

\* a line of sight that needs every one of the 36 segments unobstructed
hexCornerLOS_EveryRay(a, b, obstacles) ==
    IF \A i, j \in 1 .. 6 :
          \A key \in obstacles :
              ~segmentIntersectsPolygon(hexCorners(a)[i], hexCorners(b)[j],
                                        inflated(parseHexCubeKey(key)))
    THEN hexDistance(a, b)
    ELSE NaN

\* a, b: cube coordinates; obstacles: the keys for which blocked() holds
hexCornerLOS(a, b, obstacles) ==
    LET aCorners == hexCorners(a)
        bCorners == hexCorners(b)
        polys == { inflated(parseHexCubeKey(key)) : key \in obstacles }
    IN  IF \E i, j \in 1 .. 6 :
              \A poly \in polys :
                  ~segmentIntersectsPolygon(aCorners[i], bCorners[j], poly)
        THEN hexDistance(a, b)
        ELSE NaN

(***************************************************************************)
(* JS Map helpers: a Map is a function whose domain is its key set.        *)
(***************************************************************************)
MapGet(m, k, default) == IF k \in DOMAIN m THEN m[k] ELSE default

MapSet(m, k, v) == [x \in (DOMAIN m) \cup {k} |-> IF x = k THEN v ELSE m[x]]

\* an optional number that is not set (heatTolerance?: number)
Undefined == <<>>

\* an entity with no groupId (groupId?: number); group ids start at 1
NoGroup == 0

\* x ?? default
OrElse(x, default) == IF x = Undefined THEN default ELSE x

(***************************************************************************)
(* tickSimulation, section by section.  s is the input SimulationState;    *)
(* rolls is the set of entity keys for which Math.random() comes out below *)
(* the failure probability in this tick.                                   *)
(***************************************************************************)
SHIELD_DEFAULT_TOLERANCE == 2000

SINK_DEFAULT_TOLERANCE == 1400

PROBE_DEFAULT_TOLERANCE == 1800

PROBE_TRANSFER_RATE == <<9, 10>>

ENGINE_EFFICIENCY == <<3, 10>>

\* --- 0) entity sorting
EntitiesOfType(s, t) == { s.entities[k] : k \in { x \in DOMAIN s.entities : s.entities[x].type = t } }

DefaultTolerance(type) ==
    IF type = "shield" THEN I(SHIELD_DEFAULT_TOLERANCE)
    ELSE IF type = "sink" THEN I(SINK_DEFAULT_TOLERANCE)
    ELSE I(PROBE_DEFAULT_TOLERANCE)

\* an overheat guard that compares with the default tolerance of the type
\* and never reads heatTolerance
IsOverheated_DefaultOnly(s, ent) ==
    /\ ent.type \in {"shield", "sink", "probe"}
    /\ ~ent.destroyed
    /\ RLt(DefaultTolerance(ent.type), MapGet(s.E, hexCubeKey(ent.pos), Zero))

\* an overheat guard that also fires at the tolerance itself
IsOverheated_AtTolerance(s, ent) ==
    /\ ent.type \in {"shield", "sink", "probe"}
    /\ ~ent.destroyed
    /\ RLe(OrElse(ent.heatTolerance, DefaultTolerance(ent.type)),
           MapGet(s.E, hexCubeKey(ent.pos), Zero))

\* the guard of the three overheat checks: not destroyed and temp > tolerance
IsOverheated(s, ent) ==
    /\ ent.type \in {"shield", "sink", "probe"}
    /\ ~ent.destroyed
    /\ RLt(OrElse(ent.heatTolerance, DefaultTolerance(ent.type)),
           MapGet(s.E, hexCubeKey(ent.pos), Zero))

\* the keys the random source is consulted for
OverheatCandidates(s) ==
    { hexCubeKey(e.pos) : e \in { x \in { s.entities[k] : k \in DOMAIN s.entities } : IsOverheated(s, x) } }

\* --- 0.05 / 0.06 / 0.07) keys destroyed by overheat in this tick, by type
NewlyDestroyed(s, rolls, type) ==
    { hexCubeKey(e.pos) :
        e \in { x \in EntitiesOfType(s, type) :
                  IsOverheated(s, x) /\ hexCubeKey(x.pos) \in rolls } }

\* overheat loops that write the outcome of this tick's trial as the flag
EntitiesAfterOverheat_Recomputed(s, rolls) ==
    [k \in DOMAIN s.entities |->
        IF s.entities[k].type \in {"shield", "sink", "probe"}
        THEN [s.entities[k] EXCEPT !.destroyed = (k \in rolls)]
        ELSE s.entities[k]]

\* overheat loops that make the failure trial for every shield, sink and
\* probe, whatever the temperature of its cell
EntitiesAfterOverheat_AnyTemperature(s, rolls) ==
    [k \in DOMAIN s.entities |->
        IF s.entities[k].type \in {"shield", "sink", "probe"} /\ k \in rolls
        THEN [s.entities[k] EXCEPT !.destroyed = TRUE]
        ELSE s.entities[k]]

\* nextState.entities after the three overheat loops
EntitiesAfterOverheat(s, rolls) ==
    LET hit == NewlyDestroyed(s, rolls, "shield") \cup NewlyDestroyed(s, rolls, "sink")
                 \cup NewlyDestroyed(s, rolls, "probe")
    IN  [k \in (DOMAIN s.entities) \cup hit |->
            IF k \in hit
            THEN LET src == CHOOSE e \in { s.entities[x] : x \in DOMAIN s.entities } :
                               hexCubeKey(e.pos) = k /\ IsOverheated(s, e)
                 IN  [src EXCEPT !.destroyed = TRUE]
            ELSE s.entities[k]]

\* an obstacle set that does not look at disabledShieldGroups
ShieldKeys_IgnoringGate(s, rolls) ==
    { hexCubeKey(sh.pos) :
        sh \in { x \in EntitiesOfType(s, "shield") :
                   /\ hexCubeKey(x.pos) \notin NewlyDestroyed(s, rolls, "shield")
                   /\ ~x.destroyed } }

\* an obstacle set read from the prior state alone, blind to the shields
\* the overheat check of this tick has just destroyed
ShieldKeys_PriorOnly(s, rolls) ==
    { hexCubeKey(sh.pos) :
        sh \in { x \in EntitiesOfType(s, "shield") :
                   /\ ~x.destroyed
                   /\ ~(x.groupId # NoGroup /\ x.groupId \in s.disabledShieldGroups) } }

\* --- 0.1) the obstacle set of the LOS check
ShieldKeys(s, rolls) ==
    { hexCubeKey(sh.pos) :
        sh \in { x \in EntitiesOfType(s, "shield") :
                   /\ hexCubeKey(x.pos) \notin NewlyDestroyed(s, rolls, "shield")
                   /\ ~x.destroyed
                   /\ ~(x.groupId # NoGroup /\ x.groupId \in s.disabledShieldGroups) } }

\* some active source has a finite hexCornerLOS to the probe
ProbeHit(s, rolls, p) ==
    \E src \in EntitiesOfType(s, "source") :
        /\ src.active
        /\ hexCornerLOS(p.pos, src.pos, ShieldKeys(s, rolls)) # NaN

\* probes already destroyed when the LOS loop reaches them
ProbeAlreadyDestroyed(s, rolls, p) ==
    \/ MapGet(EntitiesAfterOverheat(s, rolls), hexCubeKey(p.pos), p).destroyed
    \/ p.destroyed

ProbesHitByLOS(s, rolls) ==
    { hexCubeKey(p.pos) :
        p \in { x \in EntitiesOfType(s, "probe") :
                  ~ProbeAlreadyDestroyed(s, rolls, x) /\ ProbeHit(s, rolls, x) } }

DestroyedProbeKeys(s, rolls) ==
    { hexCubeKey(p.pos) :
        p \in { x \in EntitiesOfType(s, "probe") : ProbeAlreadyDestroyed(s, rolls, x) } }
    \cup ProbesHitByLOS(s, rolls)

\* an LOS step that takes the probes it hits out of the entity map
EntitiesAfterLOS_Removing(s, rolls) ==
    LET after == EntitiesAfterOverheat(s, rolls)
    IN  [k \in (DOMAIN after) \ ProbesHitByLOS(s, rolls) |-> after[k]]

\* nextState.entities after overheat and LOS destruction
EntitiesAfterLOS(s, rolls) ==
    LET after == EntitiesAfterOverheat(s, rolls)
        hit == ProbesHitByLOS(s, rolls)
    IN  [k \in (DOMAIN after) \cup hit |->
            IF k \in hit
            THEN LET p == CHOOSE x \in EntitiesOfType(s, "probe") : hexCubeKey(x.pos) = k
                 IN  [p EXCEPT !.destroyed = TRUE]
            ELSE after[k]]

\* the caller's throttles, never zeroed
EffectiveProbeThrottles_Unchecked(s) == s.probeThrottles

\* --- 0.2) capacitor logic: a bank full before the drain stops its group
EffectiveProbeThrottles(s) ==
    [g \in (DOMAIN s.probeThrottles) \cup
           { id \in DOMAIN s.capacitors : RLe(s.capacitors[id].capacity, s.capacitors[id].stored) } |->
        IF g \in DOMAIN s.capacitors /\ RLe(s.capacitors[g].capacity, s.capacitors[g].stored)
        THEN Zero
        ELSE s.probeThrottles[g]]

\* a drain without the floor at 0
DrainCapacitor_NoFloor(cap) ==
    [cap EXCEPT !.stored = RSub(cap.stored, cap.drainRate)]

DrainCapacitor(cap) ==
    LET drained == RMax(Zero, RSub(cap.stored, cap.drainRate))
    IN  [cap EXCEPT !.stored = IF RLt(cap.capacity, drained) THEN cap.capacity ELSE drained]

\* a drain that visits only the capacitors of groups that have a probe
CapacitorsAfterDrain_ProbedOnly(s) ==
    [id \in DOMAIN s.capacitors |->
        IF \E p \in EntitiesOfType(s, "probe") : p.groupId = id
        THEN DrainCapacitor(s.capacitors[id])
        ELSE s.capacitors[id]]

CapacitorsAfterDrain(s) == [id \in DOMAIN s.capacitors |-> DrainCapacitor(s.capacitors[id])]

\* --- 0.5) res.heat / max(1, res.volume)
ReservoirTemp(res) == RDiv(res.heat, RMax(One, res.volume))

SinksWithReservoir(s, reservoirs) ==
    { x \in EntitiesOfType(s, "sink") : x.groupId \in DOMAIN reservoirs }

\* E with every sink cell that has a reservoir set to the reservoir temperature
SnapSinks(s, E, reservoirs) ==
    LET snapped == SinksWithReservoir(s, reservoirs)
        keys == { hexCubeKey(x.pos) : x \in snapped }
    IN  [k \in (DOMAIN E) \cup keys |->
            IF k \in keys
            THEN ReservoirTemp(reservoirs[(CHOOSE x \in snapped : hexCubeKey(x.pos) = k).groupId])
            ELSE E[k]]

clamp01Positive(v) == IF RLt(v, Zero) THEN Zero ELSE v

\* minimum of a non-empty finite set of rationals
RECURSIVE RMinSet(_)
RMinSet(S) ==
    LET v == CHOOSE x \in S : TRUE
    IN  IF S = {v} THEN v ELSE RMin(v, RMinSet(S \ {v}))

\* a grid prep in which a shield lowers its cell whatever its group's gate
ConductivityByKey_IgnoringGate(s, E) ==
    [k \in DOMAIN E |->
        RMinSet({s.baseConductivity}
            \cup { clamp01Positive(sh.conductivity) :
                     sh \in { x \in EntitiesOfType(s, "shield") : hexCubeKey(x.pos) = k } }
            \cup { clamp01Positive(si.conductivity) :
                     si \in { x \in EntitiesOfType(s, "sink") : hexCubeKey(x.pos) = k } })]

\* --- 1) grid prep: conductivity by key over the cells of E
ConductivityByKey(s, E) ==
    [k \in DOMAIN E |->
        RMinSet({s.baseConductivity}
            \cup { clamp01Positive(sh.conductivity) :
                     sh \in { x \in EntitiesOfType(s, "shield") :
                                /\ ~(x.groupId # NoGroup /\ x.groupId \in s.disabledShieldGroups)
                                /\ hexCubeKey(x.pos) = k } }
            \cup { clamp01Positive(si.conductivity) :
                     si \in { x \in EntitiesOfType(s, "sink") : hexCubeKey(x.pos) = k } })]

\* --- 2) source injection
SourceThrottle(s, src) ==
    IF src.groupId # NoGroup THEN MapGet(s.groupThrottles, src.groupId, One) ELSE One

\* sourceInputs: the power added per cell (cells with an active source only)
SourceInputs(s, E) ==
    LET act == { x \in EntitiesOfType(s, "source") : x.active /\ hexCubeKey(x.pos) \in DOMAIN E }
    IN  [k \in { hexCubeKey(x.pos) : x \in act } |->
            LET atK == { x \in act : hexCubeKey(x.pos) = k }
            IN  RSum([x \in atK |-> RMul(x.power, SourceThrottle(s, x))], atK)]

\* an injection that adds the full power of every active source
InjectSources_Unthrottled(s, E) ==
    LET act == { x \in EntitiesOfType(s, "source") : x.active /\ hexCubeKey(x.pos) \in DOMAIN E }
    IN  [k \in DOMAIN E |->
            LET atK == { x \in act : hexCubeKey(x.pos) = k }
            IN  RAdd(E[k], RSum([x \in atK |-> x.power], atK))]

InjectSources(s, E) ==
    LET inp == SourceInputs(s, E)
    IN  [k \in DOMAIN E |-> RAdd(E[k], MapGet(inp, k, Zero))]

\* --- 3) diffusion: each cell looks at directions 0, 1, 2 only
HalfDirs == <<HEX_CUBE_DIRS[1], HEX_CUBE_DIRS[2], HEX_CUBE_DIRS[3]>>

Flux(E, cond, alpha, aKey, bKey) ==
    RMul(RMul(RMin(cond[aKey], cond[bKey]), alpha), RSub(E[aKey], E[bKey]))

\* a diffusion pass that takes each edge's flux from its first cell and
\* never adds it to the second
DeltaE_OneSided(E, cond, alpha) ==
    [k \in DOMAIN E |->
        LET out == { i \in 1 .. 3 : hexCubeKey(hexAdd(parseHexCubeKey(k), HalfDirs[i])) \in DOMAIN E }
        IN  RNeg(RSum([i \in out |-> Flux(E, cond, alpha, k, hexCubeKey(hexAdd(parseHexCubeKey(k), HalfDirs[i])))], out))]

\* a diffusion pass that walks all six directions from every cell, so each
\* edge is taken once from either end
DeltaE_SixDirections(E, cond, alpha) ==
    [k \in DOMAIN E |->
        LET nb == { i \in 1 .. 6 : hexCubeKey(hexAdd(parseHexCubeKey(k), HEX_CUBE_DIRS[i])) \in DOMAIN E }
        IN  RNeg(RMul(I(2),
                RSum([i \in nb |-> Flux(E, cond, alpha, k, hexCubeKey(hexAdd(parseHexCubeKey(k), HEX_CUBE_DIRS[i])))], nb)))]

\* the accumulated deltaE of cell k: minus the flux of the edges k starts,
\* plus the flux of the edges that end in k
DeltaE(E, cond, alpha) ==
    [k \in DOMAIN E |->
        LET out == { i \in 1 .. 3 : hexCubeKey(hexAdd(parseHexCubeKey(k), HalfDirs[i])) \in DOMAIN E }
            in == { i \in 1 .. 3 : hexCubeKey(hexSub(parseHexCubeKey(k), HalfDirs[i])) \in DOMAIN E }
        IN  RSub(RSum([i \in in |-> Flux(E, cond, alpha, hexCubeKey(hexSub(parseHexCubeKey(k), HalfDirs[i])), k)], in),
                 RSum([i \in out |-> Flux(E, cond, alpha, k, hexCubeKey(hexAdd(parseHexCubeKey(k), HalfDirs[i])))], out))]

\* an exchange that hands the reservoir the source input only
ReservoirsAfterExchange_SourceOnly(s, reservoirs, inp, delta) ==
    [id \in DOMAIN reservoirs |->
        LET mine == { x \in EntitiesOfType(s, "sink") : x.groupId = id }
            totalIn == RSum([x \in mine |-> MapGet(inp, hexCubeKey(x.pos), Zero)], mine)
        IN  [reservoirs[id] EXCEPT !.heat = RAdd(@, totalIn)]]

\* --- 4) sink / reservoir exchange: source input and diffusion delta of
\* every sink cell go to the reservoir of the sink's group
ReservoirsAfterExchange(s, reservoirs, inp, delta) ==
    [id \in DOMAIN reservoirs |->
        LET mine == { x \in EntitiesOfType(s, "sink") : x.groupId = id }
            totalIn == RSum([x \in mine |->
                               RAdd(MapGet(inp, hexCubeKey(x.pos), Zero),
                                    MapGet(delta, hexCubeKey(x.pos), Zero))], mine)
        IN  [reservoirs[id] EXCEPT !.heat = RAdd(@, totalIn)]]

\* --- 5) reservoir update: a deployed radiator sheds min(heat, strength)
RadiatorLoss(res) ==
    IF res.radiator.deployed THEN RMin(res.heat, res.radiator.strength) ELSE Zero

ReservoirsAfterRadiator(reservoirs) ==
    [id \in DOMAIN reservoirs |->
        [reservoirs[id] EXCEPT !.heat = RSub(@, RadiatorLoss(reservoirs[id]))]]

SinkKeys(s) == { hexCubeKey(x.pos) : x \in EntitiesOfType(s, "sink") }

\* deltaE applied also to the cell of a sink whose group has no reservoir
ApplyDelta_OrphansIncluded(s, E, delta) ==
    [k \in DOMAIN E |->
        IF k \in { hexCubeKey(x.pos) : x \in SinksWithReservoir(s, s.reservoirs) }
        THEN E[k] ELSE RAdd(E[k], delta[k])]

\* deltaE applied to every cell that holds no sink
ApplyDelta(s, E, delta) ==
    [k \in DOMAIN E |-> IF k \in SinkKeys(s) THEN E[k] ELSE RAdd(E[k], delta[k])]

\* --- 6) probe collection: live probes by group (groupId ?? 1)
ProbeGroupOf(p) == IF p.groupId = NoGroup THEN 1 ELSE p.groupId

\* a grouping that reads the destroyed flag of the prior state and so keeps
\* the probes destroyed in this tick
ProbeGroups_PriorFlags(s, destroyedProbeKeys) ==
    LET live == { x \in EntitiesOfType(s, "probe") : ~x.destroyed }
    IN  [g \in { ProbeGroupOf(x) : x \in live } |->
            { hexCubeKey(x.pos) : x \in { y \in live : ProbeGroupOf(y) = g } }]

ProbeGroups(s, destroyedProbeKeys) ==
    LET live == { x \in EntitiesOfType(s, "probe") : hexCubeKey(x.pos) \notin destroyedProbeKeys }
    IN  [g \in { ProbeGroupOf(x) : x \in live } |->
            { hexCubeKey(x.pos) : x \in { y \in live : ProbeGroupOf(y) = g } }]

\* a group the pass leaves alone
SkippedGroup(members) ==
    [processed |-> FALSE, work |-> Zero, qMove |-> Zero, mean |-> Zero,
     change |-> [k \in members |-> Zero]]

\* a heat engine that dumps all the moved heat on the cold cells and still
\* records the work
MoveHeat_NoWaste(E, members, mean, totalExcess, totalDeficit, qMove) ==
    [processed |-> TRUE,
     work |-> RMul(qMove, ENGINE_EFFICIENCY),
     qMove |-> qMove,
     mean |-> mean,
     change |-> [k \in members |->
        IF RLt(mean, E[k])
        THEN RNeg(RMul(qMove, RDiv(RSub(E[k], mean), totalExcess)))
        ELSE IF RLt(E[k], mean) /\ RLt(Zero, totalDeficit)
        THEN RMul(qMove, RDiv(RSub(mean, E[k]), totalDeficit))
        ELSE Zero]]

\* a heat engine that takes the moved heat from the hot cells in equal
\* parts and hands the waste heat to the cold cells in equal parts
MoveHeat_EqualParts(E, members, mean, totalExcess, totalDeficit, qMove) ==
    [processed |-> TRUE,
     work |-> RMul(qMove, ENGINE_EFFICIENCY),
     qMove |-> qMove,
     mean |-> mean,
     change |-> [k \in members |->
        IF RLt(mean, E[k])
        THEN RNeg(RDiv(qMove, I(Cardinality({ x \in members : RLt(mean, E[x]) }))))
        ELSE IF RLt(E[k], mean) /\ RLt(Zero, totalDeficit)
        THEN RDiv(RSub(qMove, RMul(qMove, ENGINE_EFFICIENCY)),
                  I(Cardinality({ x \in members : RLt(E[x], mean) })))
        ELSE Zero]]

\* steps 4-5 of the heat engine: work, waste heat and each cell's change
MoveHeat(E, members, mean, totalExcess, totalDeficit, qMove) ==
    [processed |-> TRUE,
     work |-> RMul(qMove, ENGINE_EFFICIENCY),
     qMove |-> qMove,
     mean |-> mean,
     change |-> [k \in members |->
        IF RLt(mean, E[k])
        THEN RNeg(RMul(qMove, RDiv(RSub(E[k], mean), totalExcess)))
        ELSE IF RLt(E[k], mean) /\ RLt(Zero, totalDeficit)
        THEN RMul(RSub(qMove, RMul(qMove, ENGINE_EFFICIENCY)),
                  RDiv(RSub(mean, E[k]), totalDeficit))
        ELSE Zero]]

\* a move that ignores the room of the capacitor
ClampedMove_Unclamped(wanted, hasCap, room) == wanted

\* qMove = totalExcess * throttle * rate, clamped to room / efficiency when
\* the group has a capacitor (maxWorkAllowed is Infinity otherwise)
ClampedMove(wanted, hasCap, room) ==
    IF hasCap /\ RLt(RDiv(room, ENGINE_EFFICIENCY), wanted)
    THEN RDiv(room, ENGINE_EFFICIENCY)
    ELSE wanted

\* step 2-3: the equilibrium cut-off at 1e-4, then the move
ExtractWithTotals(E, members, throttle, hasCap, room, mean, totalExcess, totalDeficit) ==
    IF RLt(totalExcess, <<1, 10000>>) THEN SkippedGroup(members)
    ELSE MoveHeat(E, members, mean, totalExcess, totalDeficit,
                  ClampedMove(RMul(RMul(totalExcess, throttle), PROBE_TRANSFER_RATE), hasCap, room))

\* step 1-2: excess above and deficit below the mean
ExtractWithMean(E, members, throttle, hasCap, room, mean) ==
    ExtractWithTotals(E, members, throttle, hasCap, room, mean,
        RSum([k \in members |-> IF RLt(mean, E[k]) THEN RSub(E[k], mean) ELSE Zero], members),
        RSum([k \in members |-> IF RLt(mean, E[k]) THEN Zero ELSE RSub(mean, E[k])], members))

\* the guards of a group's pass: throttle, capacitor room, two members
ExtractGuarded(E, members, throttle, hasCap, room) ==
    IF RLe(throttle, Zero) THEN SkippedGroup(members)
    ELSE IF hasCap /\ RLe(room, Zero) THEN SkippedGroup(members)
    ELSE IF Cardinality(members) < 2 THEN SkippedGroup(members)
    ELSE ExtractWithMean(E, members, throttle, hasCap, room,
                         RDiv(RSum(E, members), I(Cardinality(members))))

\* a pass that runs a group without a probe-throttle entry at throttle 1
ExtractGroup_DefaultOn(E, caps, throttles, groupId, keyList) ==
    ExtractGuarded(E, keyList \cap DOMAIN E, MapGet(throttles, groupId, One),
        groupId \in DOMAIN caps,
        IF groupId \in DOMAIN caps
        THEN RSub(caps[groupId].capacity, caps[groupId].stored)
        ELSE Zero)

\* one group's pass of the heat engine over field E with capacitors caps:
\* whether the group was processed, the work, and the change of each cell
ExtractGroup(E, caps, throttles, groupId, keyList) ==
    ExtractGuarded(E, keyList \cap DOMAIN E, MapGet(throttles, groupId, Zero),
        groupId \in DOMAIN caps,
        IF groupId \in DOMAIN caps
        THEN RSub(caps[groupId].capacity, caps[groupId].stored)
        ELSE Zero)

\* every group's pass (groups hold disjoint cells)
Extraction(groups, throttles, E, caps) ==
    [g \in DOMAIN groups |-> ExtractGroup(E, caps, throttles, g, groups[g])]

ApplyExtraction(E, ext) ==
    [k \in DOMAIN E |->
        RAdd(E[k], RSum([g \in { x \in DOMAIN ext : k \in DOMAIN ext[x].change } |-> ext[g].change[k]],
                        { x \in DOMAIN ext : k \in DOMAIN ext[x].change }))]

FillCapacitors(caps, ext) ==
    [id \in DOMAIN caps |->
        IF id \in DOMAIN ext /\ ext[id].processed
        THEN [caps[id] EXCEPT !.stored = RMin(caps[id].capacity, RAdd(@, ext[id].work))]
        ELSE caps[id]]

EnergyCollected(ext) ==
    [g \in { x \in DOMAIN ext : ext[x].processed } |-> ext[g].work]

\* a cleanup that also clamps a negative cell to 0
Cleaned_ClampedAtZero(v) ==
    IF v[1] <= ((v[2] - 1) \div 1000000) \div 1000000 THEN Zero ELSE v

\* Math.abs(v) < 1e-12 ? 0 : v.  |n|/d < 10^-12 iff |n| * 10^12 < d, computed
\* without leaving the integer range
Cleaned(v) ==
    IF Abs(v[1]) <= ((v[2] - 1) \div 1000000) \div 1000000 THEN Zero ELSE v

\* lastPerimeterEnergy: the ring at state.radius, absent cells count 0
PerimeterSumOver(E, ring) ==
    RSumSeq([i \in 1 .. Len(ring) |-> MapGet(E, hexCubeKey(ring[i]), Zero)])

\* a perimeter sum taken over the whole field
PerimeterSum_WholeField(E, radius) == RSum(E, DOMAIN E)

PerimeterSum(E, radius) == PerimeterSumOver(E, hexRing(<<0, 0, 0>>, radius))

(***************************************************************************)
(* The tick as a chain of stages.  m is the record of the values computed  *)
(* so far; each stage adds its own and hands m to the next one.            *)
(***************************************************************************)
\* a finish that writes this tick's energy over the cumulative totals
TickFinish_TotalsOverwritten(s, m) ==
    [energyCollected |-> m.energyCollected,
     nextState |->
        [s EXCEPT
            !.entities = m.entities,
            !.E = m.Efinal,
            !.capacitors = m.capacitors,
            !.reservoirs = m.reservoirs,
            !.totalEnergyCollected =
                [g \in (DOMAIN s.totalEnergyCollected) \cup DOMAIN m.energyCollected |->
                    IF g \in DOMAIN m.energyCollected
                    THEN m.energyCollected[g]
                    ELSE s.totalEnergyCollected[g]],
            !.lastTickEnergy = m.energyCollected,
            !.lastCapacitorDelta =
                [id \in DOMAIN m.capacitors |->
                    RSub(m.capacitors[id].stored, s.capacitors[id].stored)],
            !.lastDeltaE =
                [k \in DOMAIN m.Efinal |-> RSub(m.Efinal[k], MapGet(s.E, k, Zero))],
            !.lastPerimeterEnergy = PerimeterSum(m.Efinal, s.radius),
            !.tickCount = s.tickCount + 1],
     mid |-> m]

\* cleanup, diagnostics and the result { energyCollected, nextState }
TickFinish(s, m) ==
    [energyCollected |-> m.energyCollected,
     nextState |->
        [s EXCEPT
            !.entities = m.entities,
            !.E = m.Efinal,
            !.capacitors = m.capacitors,
            !.reservoirs = m.reservoirs,
            !.totalEnergyCollected =
                [g \in (DOMAIN s.totalEnergyCollected) \cup DOMAIN m.energyCollected |->
                    IF g \in DOMAIN m.energyCollected
                    THEN RAdd(MapGet(s.totalEnergyCollected, g, Zero), m.energyCollected[g])
                    ELSE s.totalEnergyCollected[g]],
            !.lastTickEnergy = m.energyCollected,
            !.lastCapacitorDelta =
                [id \in DOMAIN m.capacitors |->
                    RSub(m.capacitors[id].stored, s.capacitors[id].stored)],
            !.lastDeltaE =
                [k \in DOMAIN m.Efinal |-> RSub(m.Efinal[k], MapGet(s.E, k, Zero))],
            !.lastPerimeterEnergy = PerimeterSum(m.Efinal, s.radius),
            !.tickCount = s.tickCount + 1],
     mid |-> m]

TickCleanup(s, m) ==
    TickFinish(s, m @@ [Efinal |-> [k \in DOMAIN m.Eextracted |-> Cleaned(m.Eextracted[k])]])

TickCollect(s, m) ==
    TickCleanup(s, m @@
        [Eextracted |-> ApplyExtraction(m.EbeforeExtraction, m.extraction),
         capacitors |-> FillCapacitors(m.capsDrained, m.extraction),
         energyCollected |-> EnergyCollected(m.extraction)])

TickExtract(s, m) ==
    TickCollect(s, m @@
        [extraction |-> Extraction(ProbeGroups(s, m.destroyedProbeKeys),
                                   m.effectiveProbeThrottles, m.EbeforeExtraction,
                                   m.capsDrained)])

\* a tick that applies deltaE and leaves the sink cells as they were
TickResnap_NoResnap(s, m) ==
    TickExtract(s, m @@ [EbeforeExtraction |-> ApplyDelta(s, m.Einjected, m.deltaE)])

TickResnap(s, m) ==
    TickExtract(s, m @@
        [EbeforeExtraction |-> SnapSinks(s, ApplyDelta(s, m.Einjected, m.deltaE), m.reservoirs)])

TickRadiate(s, m) ==
    TickResnap(s, m @@ [reservoirs |-> ReservoirsAfterRadiator(m.reservoirsExchanged)])

TickExchange(s, m) ==
    TickRadiate(s, m @@
        [reservoirsExchanged |->
            ReservoirsAfterExchange(s, s.reservoirs, m.sourceInputs, m.deltaE)])

TickDiffuse(s, m) ==
    TickExchange(s, m @@
        [deltaE |-> DeltaE(m.Einjected, m.conductivityByKey, s.diffusionAlpha)])

TickInject(s, m) ==
    TickDiffuse(s, m @@
        [conductivityByKey |-> ConductivityByKey(s, m.Esnapped),
         sourceInputs |-> SourceInputs(s, m.Esnapped),
         Einjected |-> InjectSources(s, m.Esnapped)])

TickSnap(s, m) ==
    TickInject(s, m @@ [Esnapped |-> SnapSinks(s, s.E, s.reservoirs)])

\* tickSimulation(state) with the given random outcomes
tickSimulation(s, rolls) ==
    TickSnap(s,
        [entities |-> EntitiesAfterLOS(s, rolls),
         shieldKeys |-> ShieldKeys(s, rolls),
         destroyedProbeKeys |-> DestroyedProbeKeys(s, rolls),
         effectiveProbeThrottles |-> EffectiveProbeThrottles(s),
         capsDrained |-> CapacitorsAfterDrain(s)])

(***************************************************************************)
(* Ownership of the objects a tick works on.  A SimulationState is a graph *)
(* of objects: the state object with its scalar fields, one Map or Set per *)
(* collection field, and the entity, capacitor, reservoir and radiator     *)
(* objects the maps hold.  nextState owns a fresh copy of the objects the  *)
(* clone step copies and shares every other object with the input; a write *)
(* through nextState to a shared object is a write to the input.           *)
(***************************************************************************)
\* the clone step that copies the capacitor map but not its objects
ClonedByTick_ShallowCapacitors ==
    {"state", "entities", "E", "capacitors", "reservoirs", "reservoirObjects",
     "radiatorObjects", "totalEnergyCollected", "lastTickEnergy",
     "lastCapacitorDelta", "lastDeltaE"}

\* the objects the clone step creates: the object literal, new Map(...) of
\* each listed field, { ...cap } and { ...res, radiator: { ...res.radiator } }
ClonedByTick ==
    {"state", "entities", "E", "capacitors", "capacitorObjects", "reservoirs",
     "reservoirObjects", "radiatorObjects", "totalEnergyCollected", "lastTickEnergy",
     "lastCapacitorDelta", "lastDeltaE"}

\* the objects tickSimulation writes to through nextState: the scalar
\* fields, entities.set, E.set, capacitors.set and cap.stored,
\* reservoirs.set and res.heat, and the .set of the diagnostics maps.  A
\* destroyed entity is a new object ({ ...sh, destroyed: true }); the
\* throttle maps, the disabled set and the radiators are only read.
WrittenByTick ==
    {"state", "entities", "E", "capacitors", "capacitorObjects", "reservoirs",
     "reservoirObjects", "totalEnergyCollected", "lastCapacitorDelta", "lastDeltaE"}

\* the objects behind each field of a SimulationState
ObjectsOf(field) ==
    CASE field = "entities" -> {"entities", "entityObjects"}
      [] field = "capacitors" -> {"capacitors", "capacitorObjects"}
      [] field = "reservoirs" -> {"reservoirs", "reservoirObjects", "radiatorObjects"}
      [] field \in {"E", "groupThrottles", "probeThrottles", "disabledShieldGroups",
                     "totalEnergyCollected", "lastTickEnergy", "lastCapacitorDelta",
                     "lastDeltaE"} -> {field}
      [] OTHER -> {"state"}

\* the input state as the caller sees it after tickSimulation(s) returned
\* next: a field shows the tick's value where the tick wrote to an object
\* behind it that nextState shares with the input
InputAfterTick(s, next) ==
    [f \in DOMAIN s |->
        IF ObjectsOf(f) \cap (WrittenByTick \ ClonedByTick) # {} THEN next[f] ELSE s[f]]

(***************************************************************************)
(* ThermoGame.dischargeBank on the capacitor map: the returned boolean and *)
(* the capacitors afterwards.                                              *)
(***************************************************************************)
\* a discharge that takes what the bank holds when it cannot pay the cost
dischargeBank_Partial(capacitors, groupId) ==
    IF groupId \notin DOMAIN capacitors
    THEN [ok |-> FALSE, capacitors |-> capacitors]
    ELSE IF RLe(capacitors[groupId].surchargeCost, capacitors[groupId].stored)
    THEN [ok |-> TRUE,
          capacitors |-> [capacitors EXCEPT ![groupId].stored =
                              RSub(@, capacitors[groupId].surchargeCost)]]
    ELSE [ok |-> FALSE, capacitors |-> [capacitors EXCEPT ![groupId].stored = Zero]]

dischargeBank(capacitors, groupId) ==
    IF groupId \notin DOMAIN capacitors
    THEN [ok |-> FALSE, capacitors |-> capacitors]
    ELSE IF RLe(capacitors[groupId].surchargeCost, capacitors[groupId].stored)
    THEN [ok |-> TRUE,
          capacitors |-> [capacitors EXCEPT ![groupId].stored =
                              RSub(@, capacitors[groupId].surchargeCost)]]
    ELSE [ok |-> FALSE, capacitors |-> capacitors]

(***************************************************************************)
(* ThermoGame.toggleShieldGroup on the game's field, entities and disabled *)
(* set.  savedTemp is the optional bookkeeping field of a shield.          *)
(***************************************************************************)
\* the keys of the shields of the group
ShieldsOfGroup(entities, groupId) ==
    { k \in DOMAIN entities : entities[k].type = "shield" /\ entities[k].groupId = groupId }

\* "Enabling: Restore temp": each saved value goes back to its cell
\* (E.set creates the cell if the field lacks it) and is cleared
EnableShieldGroup(s, groupId) ==
    LET saved == { k \in ShieldsOfGroup(s.entities, groupId) :
                     s.entities[k].savedTemp # Undefined }
    IN  [s EXCEPT
            !.disabledShieldGroups = @ \ {groupId},
            !.E = [k \in (DOMAIN s.E) \cup saved |->
                      IF k \in saved THEN s.entities[k].savedTemp ELSE s.E[k]],
            !.entities = [k \in DOMAIN s.entities |->
                      IF k \in saved THEN [s.entities[k] EXCEPT !.savedTemp = Undefined]
                      ELSE s.entities[k]]]

\* "Disabling: Save temp": savedTemp = E.get(k) || 0; the cell is left as is
DisableShieldGroup(s, groupId) ==
    [s EXCEPT
        !.disabledShieldGroups = @ \cup {groupId},
        !.entities = [k \in DOMAIN s.entities |->
                  IF k \in ShieldsOfGroup(s.entities, groupId)
                  THEN [s.entities[k] EXCEPT !.savedTemp = MapGet(s.E, k, Zero)]
                  ELSE s.entities[k]]]

toggleShieldGroup(s, groupId) ==
    IF groupId \in s.disabledShieldGroups
    THEN EnableShieldGroup(s, groupId)
    ELSE DisableShieldGroup(s, groupId)

(***************************************************************************)
(* ThermoGame.deserialize.  The text is modelled by what JSON.parse makes  *)
(* of it: kind "unparsable" (JSON.parse throws), "null" (a value without   *)
(* properties: reading data.radius throws) or "object" with the fields     *)
(* below.  An absent or non-array list has has... = FALSE.  An entity item *)
(* that is not iterable (ok = FALSE) makes the destructuring throw; a      *)
(* throttle list holding a non-entry (kind "malformed") makes new Map      *)
(* throw; a capacitor item that is null or lacks config (ok = FALSE) is    *)
(* skipped.  The try/catch catches every exception and logs it.            *)
(***************************************************************************)
\* 1. Restore Radius & Grid
RestoreRadius(s, data) ==
    IF data.hasRadius
    THEN [s EXCEPT !.radius = data.radius,
                   !.E = [k \in generateHexagon(data.radius) |-> Zero]]
    ELSE s

\* the number of items of the list read before the exception, all of them
\* if none throws
ItemsRead(items) ==
    IF \A i \in 1 .. Len(items) : items[i].ok THEN Len(items)
    ELSE (CHOOSE i \in 1 .. Len(items) :
             ~items[i].ok /\ \A j \in 1 .. (i - 1) : items[j].ok) - 1

\* 2. Restore Entities: the map is cleared, then filled item by item with
\* the entities whose key is on the board, a later item replacing an
\* earlier one of the same key
RestoreEntities(s, data) ==
    IF ~data.hasEntities THEN [state |-> s, threw |-> FALSE]
    ELSE LET n == ItemsRead(data.entities)
             kept == { i \in 1 .. n : data.entities[i].key \in DOMAIN s.E }
         IN  [state |-> [s EXCEPT !.entities =
                            [k \in { data.entities[i].key : i \in kept } |->
                                data.entities[CHOOSE i \in kept :
                                    /\ data.entities[i].key = k
                                    /\ \A j \in kept :
                                          data.entities[j].key = k => j <= i].ent]],
              threw |-> n < Len(data.entities)]

\* one throttle list: new Map(list), or the map kept if the list is absent
RestoreThrottle(old, list) ==
    IF list.kind = "entries" THEN [map |-> list.map, threw |-> FALSE]
    ELSE [map |-> old, threw |-> list.kind = "malformed"]

\* 3. Restore Throttles: groupThrottles, then probeThrottles
RestoreThrottles(s, data) ==
    LET g == RestoreThrottle(s.groupThrottles, data.groupThrottles)
        p == RestoreThrottle(s.probeThrottles, data.probeThrottles)
    IN  IF g.threw THEN [state |-> s, threw |-> TRUE]
        ELSE [state |-> [s EXCEPT !.groupThrottles = g.map,
                                  !.probeThrottles = IF p.threw THEN @ ELSE p.map],
              threw |-> p.threw]

\* 4. Restore Capacitor Configs: the configuration of each existing bank,
\* the last item of a bank winning; stored is kept
RestoreCapacitors(s, data) ==
    IF ~data.hasCapacitors THEN s
    ELSE [s EXCEPT !.capacitors =
            [id \in DOMAIN s.capacitors |->
                LET its == { i \in 1 .. Len(data.capacitors) :
                               data.capacitors[i].ok /\ data.capacitors[i].id = id }
                IN  IF its = {} THEN s.capacitors[id]
                    ELSE LET c == data.capacitors[CHOOSE i \in its : \A j \in its : j <= i].config
                         IN  [s.capacitors[id] EXCEPT !.capacity = c.capacity,
                                                      !.drainRate = c.drainRate,
                                                      !.surchargeCost = c.surchargeCost]]]

\* the game afterwards, whether the catch block ran (console.error), and
\* whether an exception left the method: none does
deserialize(s, json) ==
    IF json.kind # "object" THEN [state |-> s, caught |-> TRUE, thrown |-> FALSE]
    ELSE LET e == RestoreEntities(RestoreRadius(s, json), json)
             t == RestoreThrottles(e.state, json)
         IN  IF e.threw THEN [state |-> e.state, caught |-> TRUE, thrown |-> FALSE]
             ELSE IF t.threw THEN [state |-> t.state, caught |-> TRUE, thrown |-> FALSE]
             ELSE [state |-> RestoreCapacitors(t.state, json),
                   caught |-> FALSE, thrown |-> FALSE]

(***************************************************************************)
(* Bounds of the model.                                                    *)
(***************************************************************************)
\* ticks taken from an initial state
MaxTicks == 2

\* a tick starts only while every numerator and denominator of the state
\* is at most this (keeps the exact arithmetic inside the integer range)
MaxMagnitude == 5000

\* board radius of the initial states (generateHexagon(radius))
BoardRadius == 1

\* group ids the caller may pass to dischargeBank
MaxGroup == 2

\* blocked cells of one line-of-sight query
MaxObstacles == 1

\* the farthest target of a line-of-sight query behind a blocked ring
MaxSight == 3

\* cells of a field whose diffusion loop is run in every key order
MaxPassCells == 4

(***************************************************************************)
(* Initial states: boards as the editor and the tests build them.          *)
(***************************************************************************)
SourceEntity(pos, power, active, groupId) ==
    [type |-> "source", pos |-> pos, groupId |-> groupId, destroyed |-> FALSE,
     heatTolerance |-> Undefined, power |-> power, active |-> active, conductivity |-> One,
     savedTemp |-> Undefined]

ShieldEntity(pos, conductivity, groupId, heatTolerance, destroyed) ==
    [type |-> "shield", pos |-> pos, groupId |-> groupId, destroyed |-> destroyed,
     heatTolerance |-> heatTolerance, power |-> Zero, active |-> FALSE,
     conductivity |-> conductivity, savedTemp |-> Undefined]

SinkEntity(pos, conductivity, groupId, heatTolerance, destroyed) ==
    [type |-> "sink", pos |-> pos, groupId |-> groupId, destroyed |-> destroyed,
     heatTolerance |-> heatTolerance, power |-> Zero, active |-> FALSE,
     conductivity |-> conductivity, savedTemp |-> Undefined]

ProbeEntity(pos, groupId, heatTolerance, destroyed) ==
    [type |-> "probe", pos |-> pos, groupId |-> groupId, destroyed |-> destroyed,
     heatTolerance |-> heatTolerance, power |-> Zero, active |-> FALSE, conductivity |-> One,
     savedTemp |-> Undefined]

\* the entity map holding the given entities, each under the key of its pos
EntityMap(ents) == [k \in { hexCubeKey(e.pos) : e \in ents } |->
                        CHOOSE e \in ents : hexCubeKey(e.pos) = k]

Capacitor(id, stored, capacity, drainRate, surchargeCost) ==
    [id |-> id, stored |-> stored, capacity |-> capacity, drainRate |-> drainRate,
     surchargeCost |-> surchargeCost]

Reservoir(id, heat, volume, deployed, strength) ==
    [id |-> id, heat |-> heat, volume |-> volume,
     radiator |-> [deployed |-> deployed, strength |-> strength]]

Centre == <<0, 0, 0>>

\* the field that is base everywhere except hot at one cell
FieldWith(cells, hotCell, hot, base) == [k \in cells |-> IF k = hotCell THEN hot ELSE base]

\* createMockState: empty maps, tickCount 0, baseConductivity 1
MockState(E, radius, alpha) ==
    [entities |-> <<>>, E |-> E, capacitors |-> <<>>, reservoirs |-> <<>>,
     groupThrottles |-> <<>>, probeThrottles |-> <<>>, disabledShieldGroups |-> {},
     totalEnergyCollected |-> <<>>, lastTickEnergy |-> <<>>, lastCapacitorDelta |-> <<>>,
     lastDeltaE |-> <<>>, lastPerimeterEnergy |-> Zero, tickCount |-> 0,
     radius |-> radius, diffusionAlpha |-> alpha, baseConductivity |-> One]

Board == generateHexagon(BoardRadius)

\* diffusion boards: at most one shield, any gating, one hot cell
DiffusionBoards ==
    { [MockState(FieldWith(Board, hot, I(100), base), BoardRadius, alpha) EXCEPT
          !.entities = EntityMap(shields),
          !.disabledShieldGroups = disabled] :
        hot \in {Centre, HEX_CUBE_DIRS[1]},
        base \in {Zero, I(10)},
        alpha \in {<<1, 10>>, <<9, 10>>},
        disabled \in {{}, {1}},
        shields \in {{}} \cup
            { {ShieldEntity(pos, k, g, Undefined, d)} :
                pos \in {Centre, HEX_CUBE_DIRS[1]},
                k \in {<<1, 2>>, <<1, 10>>},
                g \in {NoGroup, 1},
                d \in BOOLEAN } }

\* probe boards: two or three probes of group 1, a capacitor bank or none
ProbeBoards ==
    { [MockState([k \in Board |->
                    IF k = HEX_CUBE_DIRS[1] THEN a
                    ELSE IF k = HEX_CUBE_DIRS[4] THEN b ELSE Zero],
                 BoardRadius, <<1, 10>>) EXCEPT
          !.entities = EntityMap(
              {ProbeEntity(HEX_CUBE_DIRS[1], 1, Undefined, FALSE),
               ProbeEntity(HEX_CUBE_DIRS[4], NoGroup, Undefined, FALSE)} \cup third),
          !.probeThrottles = throttles,
          !.capacitors = caps] :
        a \in {I(100), I(20)},
        b \in {Zero, I(20)},
        third \in {{}, {ProbeEntity(Centre, 1, Undefined, TRUE)}},
        throttles \in {<<>>, [g \in {1} |-> One], [g \in {1} |-> <<1, 2>>], [g \in {1} |-> Zero]},
        caps \in {<<>>} \cup
            { [g \in {1} |-> Capacitor(1, stored, capacity, drain, I(5))] :
                stored \in {Zero, I(5), I(10)},
                capacity \in {I(10), I(1000)},
                drain \in {Zero, I(2)} } }

\* sink boards: a sink at the centre, its reservoir or none, a hot neighbour
SinkBoards ==
    { [MockState(FieldWith(Board, HEX_CUBE_DIRS[1], hot, Zero), BoardRadius, <<1, 10>>) EXCEPT
          !.entities = EntityMap({SinkEntity(Centre, k, 1, Undefined, d)} \cup sources),
          !.reservoirs = res] :
        hot \in {Zero, I(100)},
        k \in {One, <<1, 2>>},
        d \in BOOLEAN,
        sources \in {{}, {SourceEntity(HEX_CUBE_DIRS[1], I(10), TRUE, 1)}},
        res \in {<<>>} \cup
            { [g \in {1} |-> Reservoir(1, heat, volume, deployed, I(5))] :
                heat \in {Zero, I(50), I(3)},
                volume \in {One, I(10), <<1, 2>>},
                deployed \in BOOLEAN } }

\* line-of-sight boards: source and probe two apart across the centre in
\* one of the six directions, the centre empty or shielded
LosBoards ==
    { [MockState([k \in Board |-> Zero], BoardRadius, <<1, 10>>) EXCEPT
          !.entities = EntityMap(
              {SourceEntity(HEX_CUBE_DIRS[axis], I(100), active, NoGroup),
               ProbeEntity(hexScale(HEX_CUBE_DIRS[axis], -1), 1, Undefined, FALSE)} \cup mid),
          !.disabledShieldGroups = disabled] :
        axis \in 1 .. 6,
        active \in BOOLEAN,
        disabled \in {{}, {1}},
        mid \in {{}, {ShieldEntity(Centre, <<1, 2>>, 1, Undefined, FALSE)},
                 {ShieldEntity(Centre, <<1, 2>>, 1, Undefined, TRUE)}} }

\* tolerances of the overheat boards: unset, positive, negative
Tolerances == {Undefined, I(10), I(-5)}

\* overheat boards: one destructible entity at the centre, its cell at or
\* around its tolerance (set or default) or missing from the field; the
\* field covers the board or, as in the tests, the entity's cell alone
OverheatBoards ==
    { [MockState(FieldWith(cells, Centre, temp, Zero), BoardRadius, <<1, 10>>) EXCEPT
          !.entities = EntityMap({ent})] :
        cells \in {Board, Board \ {Centre}, {Centre}},
        temp \in {I(10), I(11), I(1400), I(1401), I(1800), I(1801), I(2000), I(2001)},
        ent \in { ShieldEntity(Centre, One, 1, tol, FALSE) : tol \in Tolerances }
           \cup { SinkEntity(Centre, One, 1, tol, FALSE) : tol \in Tolerances }
           \cup { ProbeEntity(Centre, 1, tol, FALSE) : tol \in Tolerances } }

\* a sink at the centre whose cell is at or around its tolerance while its
\* reservoir is colder or hotter than the cell
SnappedSinkBoards ==
    { [MockState(FieldWith(Board, Centre, temp, Zero), BoardRadius, <<1, 10>>) EXCEPT
          !.entities = EntityMap({SinkEntity(Centre, One, 1, tol, FALSE)}),
          !.reservoirs = [g \in {1} |-> Reservoir(1, heat, One, FALSE, I(5))]] :
        temp \in {I(10), I(11), I(1400), I(1401)},
        tol \in {Undefined, I(10)},
        heat \in {Zero, I(3000)} }

\* boards with an entity outside the field, as the probe and shield tests
\* place theirs: the field lacks the cell `out` of the line through the
\* centre, an entity of any type stands at `out`, and the other cells of the
\* line hold a source, a probe, both or nothing
OutOfDomainBoardsAt(out) ==
    { [MockState(FieldWith(Board \ {out}, HEX_CUBE_DIRS[2], I(100), Zero),
                 BoardRadius, <<1, 10>>) EXCEPT
          !.entities = EntityMap({outEnt} \cup others),
          !.reservoirs = res] :
        res \in {<<>>, [g \in {1} |-> Reservoir(1, I(50), I(10), FALSE, I(5))]},
        outEnt \in { SourceEntity(out, I(10), TRUE, 1),
                     ShieldEntity(out, <<1, 2>>, 1, Undefined, FALSE),
                     SinkEntity(out, One, 1, Undefined, FALSE),
                     ProbeEntity(out, 1, Undefined, FALSE) },
        others \in { ents \in
                       { {},
                         {SourceEntity(HEX_CUBE_DIRS[4], I(10), TRUE, NoGroup)},
                         {ProbeEntity(HEX_CUBE_DIRS[4], 1, Undefined, FALSE)},
                         {SourceEntity(HEX_CUBE_DIRS[4], I(10), TRUE, NoGroup),
                          ProbeEntity(HEX_CUBE_DIRS[1], 1, Undefined, FALSE)} } :
                       \A e \in ents : e.pos # out } }

OutOfDomainBoards == UNION { OutOfDomainBoardsAt(out) : out \in {Centre, HEX_CUBE_DIRS[1]} }

\* createMockState(E, radius, alpha) with a radius of its own: the field
\* reaches one ring beyond BoardRadius, the radius runs from -1 to one ring
\* beyond the field
PerimeterBoards ==
    { MockState(FieldWith(generateHexagon(BoardRadius + 1), hot, I(100), I(1)),
                radius, <<1, 10>>) :
        hot \in {HEX_CUBE_DIRS[1], hexScale(HEX_CUBE_DIRS[1], BoardRadius + 1)},
        radius \in -1 .. BoardRadius + 2 }

\* a whole plant on one board: a throttled source behind two shields, two
\* probes of one group in their shadow, two sinks that share a reservoir
\* with a deployed radiator
PlantBoards ==
    { [MockState(FieldWith(Board, HEX_CUBE_DIRS[3], I(100), Zero), BoardRadius, <<1, 10>>) EXCEPT
          !.entities = EntityMap(
              {SourceEntity(HEX_CUBE_DIRS[1], I(10), TRUE, 1),
               ShieldEntity(Centre, <<1, 2>>, NoGroup, Undefined, FALSE),
               ShieldEntity(HEX_CUBE_DIRS[2], <<1, 2>>, NoGroup, Undefined, FALSE),
               ProbeEntity(HEX_CUBE_DIRS[3], 1, Undefined, FALSE),
               ProbeEntity(HEX_CUBE_DIRS[4], 1, Undefined, FALSE),
               SinkEntity(HEX_CUBE_DIRS[5], One, 1, Undefined, FALSE),
               SinkEntity(HEX_CUBE_DIRS[6], <<1, 2>>, 1, Undefined, FALSE)}),
          !.groupThrottles = throttles,
          !.probeThrottles = [g \in {1} |-> One],
          !.reservoirs = [g \in {1} |-> Reservoir(1, I(50), I(10), TRUE, I(5))]] :
        throttles \in {<<>>, [g \in {1} |-> <<1, 2>>]} }

\* a sink at the centre of a cold field whose reservoir is warmer than the
\* field: the diffusion delta of the sink cell is negative, and with
\* alpha = 0.9 larger than the heat the reservoir holds
ColdFieldBoards ==
    { [MockState([k \in Board |-> Zero], BoardRadius, alpha) EXCEPT
          !.entities = EntityMap({SinkEntity(Centre, One, 1, Undefined, FALSE)}),
          !.reservoirs = [g \in {1} |-> Reservoir(1, I(50), One, deployed, I(5))]] :
        alpha \in {<<1, 10>>, <<9, 10>>},
        deployed \in BOOLEAN }

\* failures within one tick: a source two cells out, a shield next to it
\* that may overheat, two probes in the shield's shadow and a third probe
\* beside the shadow on a cell above its own tolerance, all of one group
FailureBoards ==
    { [MockState([k \in generateHexagon(BoardRadius + 1) |->
                    IF k = HEX_CUBE_DIRS[1] THEN I(100)
                    ELSE IF k = HEX_CUBE_DIRS[2] THEN I(40)
                    ELSE IF k = Centre THEN I(20) ELSE Zero],
                 BoardRadius + 1, <<1, 10>>) EXCEPT
          !.entities = EntityMap(
              {SourceEntity(hexScale(HEX_CUBE_DIRS[1], 2), I(10), active, NoGroup),
               ShieldEntity(HEX_CUBE_DIRS[1], <<1, 2>>, 1, tol, FALSE),
               ProbeEntity(Centre, 1, Undefined, FALSE),
               ProbeEntity(HEX_CUBE_DIRS[4], 1, Undefined, FALSE)} \cup third),
          !.probeThrottles = [g \in {1} |-> One],
          !.disabledShieldGroups = disabled] :
        active \in BOOLEAN,
        tol \in {Undefined, I(10)},
        disabled \in {{}, {1}},
        third \in {{}, {ProbeEntity(HEX_CUBE_DIRS[2], 1, I(10), FALSE)}} }

\* two probes of one group at throttle 1 whose cells end the diffusion step
\* with a total excess of exactly 1e-4 or just below it
ThresholdBoards ==
    { [MockState(FieldWith(Board, HEX_CUBE_DIRS[1], a, Zero), BoardRadius, <<1, 10>>) EXCEPT
          !.entities = EntityMap({ProbeEntity(HEX_CUBE_DIRS[1], 1, Undefined, FALSE),
                                  ProbeEntity(HEX_CUBE_DIRS[4], 1, Undefined, FALSE)}),
          !.probeThrottles = [g \in {1} |-> One]] :
        a \in {<<1, 3500>>, <<1, 4000>>} }

\* two sinks on one board: the one at the centre belongs to a group without
\* a reservoir, the other to the group of the only reservoir; a source
\* keeps the cell beside the centre hot
OrphanSinkBoards ==
    { [MockState([k \in Board |->
                    IF k = HEX_CUBE_DIRS[1] THEN I(100)
                    ELSE IF k = Centre THEN I(30) ELSE Zero],
                 BoardRadius, <<1, 10>>) EXCEPT
          !.entities = EntityMap(
              {SinkEntity(Centre, cond, 2, Undefined, FALSE),
               SinkEntity(HEX_CUBE_DIRS[4], One, 1, Undefined, FALSE),
               SourceEntity(HEX_CUBE_DIRS[1], I(10), TRUE, NoGroup)}),
          !.reservoirs = [g \in {1} |-> Reservoir(1, I(50), I(10), deployed, I(5))]] :
        cond \in {One, <<1, 2>>},
        deployed \in BOOLEAN }

InitialStates ==
    DiffusionBoards \cup ProbeBoards \cup SinkBoards \cup LosBoards \cup OverheatBoards
        \cup SnappedSinkBoards \cup OutOfDomainBoards \cup PerimeterBoards
        \cup PlantBoards \cup ColdFieldBoards \cup OrphanSinkBoards

(***************************************************************************)
(* The state machine.  state is the SimulationState the game holds; aux    *)
(* records the last operation: its name, the state it started from, the    *)
(* random outcomes, the intermediate values, the returned value, and the   *)
(* field the test loops re-impose before each of their ticks.              *)
(***************************************************************************)
VARIABLES state, aux

vars == <<state, aux>>

NoMid == <<>>

Init ==
    /\ state \in InitialStates
    /\ aux = [op |-> "init", prev |-> state, rolls |-> {}, mid |-> NoMid,
              group |-> NoGroup, ret |-> FALSE, held |-> state.E]

Weight(v) == IMax(Abs(v[1]), v[2])

\* the largest numerator or denominator held in the state
Magnitude(s) ==
    LET ws == { Weight(s.E[k]) : k \in DOMAIN s.E }
                \cup { Weight(s.capacitors[g].stored) : g \in DOMAIN s.capacitors }
                \cup { Weight(s.reservoirs[g].heat) : g \in DOMAIN s.reservoirs }
                \cup { Weight(s.totalEnergyCollected[g]) : g \in DOMAIN s.totalEnergyCollected }
    IN  IF ws = {} THEN 0 ELSE CHOOSE w \in ws : \A x \in ws : x <= w

\* one call of tickSimulation, the game taking nextState as its state
Tick ==
    /\ state.tickCount < MaxTicks
    /\ Magnitude(state) <= MaxMagnitude
    /\ \E rolls \in SUBSET OverheatCandidates(state) :
          \E r \in {tickSimulation(state, rolls)} :
              /\ state' = r.nextState
              /\ aux' = [op |-> "tick", prev |-> state, rolls |-> rolls, mid |-> r.mid,
                         group |-> NoGroup, ret |-> FALSE, held |-> aux.held]

\* the discharge button: game.dischargeBank(groupId)
DischargeBank ==
    \E g \in 1 .. MaxGroup :
        LET r == dischargeBank(state.capacitors, g)
        IN  /\ state' = [state EXCEPT !.capacitors = r.capacitors]
            /\ aux' = [op |-> "discharge", prev |-> state, rolls |-> {}, mid |-> NoMid,
                       group |-> g, ret |-> r.ok, held |-> aux.held]

Next == Tick \/ DischargeBank

Spec == Init /\ [][Next]_vars

(***************************************************************************)
(* The loop of the overheat tests: before each tick the loop writes the    *)
(* held temperatures back into the field, calls tickSimulation, and keeps  *)
(* the entities and the field of the result (tickCount is not copied).     *)
(***************************************************************************)
\* field E with the held cells written back
Enforced(E, held) ==
    [k \in (DOMAIN E) \cup DOMAIN held |-> IF k \in DOMAIN held THEN held[k] ELSE E[k]]

HeldState == [state EXCEPT !.E = Enforced(state.E, aux.held)]

HeldTickWith(rolls) ==
    \E r \in {tickSimulation(HeldState, rolls)} :
        /\ state' = [state EXCEPT !.entities = r.nextState.entities, !.E = r.nextState.E]
        /\ aux' = [op |-> "heldTick", prev |-> HeldState, rolls |-> rolls, mid |-> r.mid,
                   group |-> NoGroup, ret |-> FALSE, held |-> aux.held]

\* one iteration of the loop
HeldTick == \E rolls \in SUBSET OverheatCandidates(HeldState) : HeldTickWith(rolls)

\* an iteration in which the failure trial of the entity at k comes out
\* "destroyed"
Destroying(k) ==
    \E rolls \in SUBSET OverheatCandidates(HeldState) : k \in rolls /\ HeldTickWith(rolls)

LiveInit ==
    /\ state \in OverheatBoards
    /\ aux = [op |-> "init", prev |-> state, rolls |-> {}, mid |-> NoMid,
              group |-> NoGroup, ret |-> FALSE, held |-> state.E]

LiveNext == HeldTick

\* the failure trial of the entity at k is made in the next iteration: the
\* entity is intact and its cell is above its tolerance.  Destroying(k)
\* then flips the entity's flag, so this is ENABLED <<Destroying(k)>>_vars.
Candidate(k) == k \in OverheatCandidates(HeldState)

\* weak fairness of Destroying(k), WF_vars(Destroying(k)), with its
\* enabling condition written as the state predicate Candidate(k): a trial
\* that keeps being made does not come out "survive" forever
FairTrial(k) == ([]<>~Candidate(k)) \/ ([]<><<Destroying(k)>>_vars)

\* the cells at which the overheat boards place their entity
TrialCells == {Centre}

\* the loop under a fair failure trial
LiveSpec == LiveInit /\ [][LiveNext]_vars /\ \A k \in TrialCells : FairTrial(k)

(***************************************************************************)
(* The shield buttons: game.toggleShieldGroup(g) between the ticks of a    *)
(* board that holds a shield of the group.                                 *)
(***************************************************************************)
\* the shield button of a group that holds a shield: game.toggleShieldGroup(g)
ToggleShieldGroup ==
    \E g \in 1 .. MaxGroup :
        /\ ShieldsOfGroup(state.entities, g) # {}
        /\ state' = toggleShieldGroup(state, g)
        /\ aux' = [op |-> "toggle", prev |-> state, rolls |-> {}, mid |-> NoMid,
                   group |-> g, ret |-> FALSE, held |-> aux.held]

\* the diffusion boards with a shield in a group
ToggleBoards ==
    { s \in DiffusionBoards : \E g \in 1 .. MaxGroup : ShieldsOfGroup(s.entities, g) # {} }

ToggleInit ==
    /\ state \in ToggleBoards
    /\ aux = [op |-> "init", prev |-> state, rolls |-> {}, mid |-> NoMid,
              group |-> NoGroup, ret |-> FALSE, held |-> state.E]

ToggleNext == Tick \/ ToggleShieldGroup

ToggleSpec == ToggleInit /\ [][ToggleNext]_vars

(***************************************************************************)
(* The load button: game.deserialize(json) with the text found in the      *)
(* local storage, which any page may have written.                         *)
(***************************************************************************)
\* the item [key, ent] of a saved entity list, and an item that is not a
\* pair (null)
EntityItem(ent) == [ok |-> TRUE, key |-> hexCubeKey(ent.pos), ent |-> ent]

NullEntityItem == [ok |-> FALSE, key |-> Centre, ent |-> ProbeEntity(Centre, 1, Undefined, FALSE)]

\* the item { id, config } of a saved capacitor list, and a null item
CapacitorItem(id, capacity, drainRate, surchargeCost) ==
    [ok |-> TRUE, id |-> id,
     config |-> [capacity |-> capacity, drainRate |-> drainRate, surchargeCost |-> surchargeCost]]

NullCapacitorItem ==
    [ok |-> FALSE, id |-> NoGroup,
     config |-> [capacity |-> Zero, drainRate |-> Zero, surchargeCost |-> Zero]]

AbsentList == [kind |-> "absent", map |-> <<>>]

MalformedList == [kind |-> "malformed", map |-> <<>>]

Entries(map) == [kind |-> "entries", map |-> map]

\* what JSON.parse makes of a text that is an object
ParsedObject(radius, entities, groupThrottles, probeThrottles, capacitors) ==
    [kind |-> "object",
     hasRadius |-> radius.has, radius |-> radius.value,
     hasEntities |-> entities.has, entities |-> entities.items,
     groupThrottles |-> groupThrottles, probeThrottles |-> probeThrottles,
     hasCapacitors |-> capacitors.has, capacitors |-> capacitors.items]

\* a text that does not parse ("unparsable") or parses to null ("null")
NotAnObject(kind) ==
    [ParsedObject([has |-> FALSE, value |-> 0], [has |-> FALSE, items |-> <<>>],
                  AbsentList, AbsentList, [has |-> FALSE, items |-> <<>>])
        EXCEPT !.kind = kind]

\* the texts the load button may find
Snapshots ==
    { NotAnObject("unparsable"), NotAnObject("null") }
    \cup
    { ParsedObject(radius, entities, groupThrottles, probeThrottles, capacitors) :
        radius \in { [has |-> FALSE, value |-> 0], [has |-> TRUE, value |-> 0] },
        entities \in
            { [has |-> FALSE, items |-> <<>>],
              [has |-> TRUE, items |->
                  <<EntityItem(ShieldEntity(Centre, <<1, 2>>, 1, Undefined, FALSE))>>],
              [has |-> TRUE, items |->
                  <<EntityItem(SourceEntity(HEX_CUBE_DIRS[1], I(10), TRUE, 1)), NullEntityItem>>] },
        groupThrottles \in { AbsentList, MalformedList, Entries([g \in {1} |-> <<1, 2>>]) },
        probeThrottles \in { AbsentList, Entries([g \in {1} |-> <<1, 4>>]) },
        capacitors \in
            { [has |-> FALSE, items |-> <<>>],
              [has |-> TRUE, items |->
                  <<NullCapacitorItem, CapacitorItem(1, I(100), One, I(10))>>] } }

\* the games a layout is loaded into: probes of group 1 with a throttle,
\* a bank holding charge
LoadBoards ==
    { s \in ProbeBoards :
        /\ DOMAIN s.probeThrottles # {}
        /\ DOMAIN s.capacitors # {}
        /\ s.capacitors[1] = Capacitor(1, I(5), I(10), Zero, I(5))
        /\ s.E[HEX_CUBE_DIRS[4]] = Zero }

Deserialize ==
    \E json \in Snapshots :
        LET r == deserialize(state, json)
        IN  /\ state' = r.state
            /\ aux' = [op |-> "deserialize", prev |-> state, rolls |-> {},
                       mid |-> [json |-> json, caught |-> r.caught],
                       group |-> NoGroup, ret |-> r.thrown, held |-> aux.held]

LoadInit ==
    /\ state \in LoadBoards
    /\ aux = [op |-> "init", prev |-> state, rolls |-> {}, mid |-> NoMid,
              group |-> NoGroup, ret |-> FALSE, held |-> state.E]

LoadNext == Deserialize

LoadSpec == LoadInit /\ [][LoadNext]_vars

(***************************************************************************)
(* Line-of-sight queries: hexCornerLOS(a, b, layout, blocked, keys) for    *)
(* cells a, b of the board and a set of blocked cells.                     *)
(***************************************************************************)
\* the cells of a query: the centre and its six neighbours, which hold
\* every pair at distance 0, 1 and 2 and every cell between such a pair
LosCells == generateHexagon(1)

\* the sets of blocked cells of a query
ObstacleSets == { obs \in SUBSET LosCells : Cardinality(obs) <= MaxObstacles }

\* a query is made with its arguments in aux.mid; the answer joins them
CastLOS ==
    /\ aux.op = "query"
    /\ state' = state
    /\ aux' = [aux EXCEPT
                  !.op = "los",
                  !.mid.los = hexCornerLOS(aux.mid.a, aux.mid.b, aux.mid.obstacles)]

\* the cells of a ring as a set
RingCells(center, R) ==
    { hexRing(center, R)[i] : i \in 1 .. Len(hexRing(center, R)) }

\* the queries of "is blocked by full ring": the six cells of ring 1 around
\* a are blocked and b lies outside that ring, up to MaxSight cells away
FullRingQueriesFrom(a) ==
    { [a |-> a, b |-> b, obstacles |-> RingCells(a, 1)] :
        b \in UNION { RingCells(a, R) : R \in 2 .. MaxSight } }

FullRingQueries == UNION { FullRingQueriesFrom(a) : a \in LosCells }

\* the queries between cells of LosCells past at most MaxObstacles of them
NearQueries ==
    { [a |-> q[1], b |-> q[2], obstacles |-> q[3]] :
        q \in LosCells \X LosCells \X ObstacleSets }

LosInit ==
    /\ state = MockState([k \in Board |-> Zero], BoardRadius, <<1, 10>>)
    /\ \E q \in NearQueries \cup FullRingQueries :
          aux = [op |-> "query", prev |-> state, rolls |-> {},
                 mid |-> [a |-> q.a, b |-> q.b, obstacles |-> q.obstacles, los |-> NaN],
                 group |-> NoGroup, ret |-> FALSE, held |-> state.E]

LosNext == CastLOS

LosSpec == LosInit /\ [][LosNext]_vars

(***************************************************************************)
(* The diffusion loop of the tick run cell by cell: deltaE starts at 0 for *)
(* every key, the cells are visited in the order E.keys() yields them, and *)
(* each visit walks halfDirs and adds the flux of an edge to both ends.    *)
(***************************************************************************)
\* a flux computed from values the pass has already updated
EdgeFlux_FromUpdated(E, cond, alpha, delta, aKey, bKey) ==
    RMul(RMul(RMin(cond[aKey], cond[bKey]), alpha),
         RSub(RAdd(E[aKey], delta[aKey]), RAdd(E[bKey], delta[bKey])))

\* the flux of one edge as the loop computes it: Ea and Eb are read from
\* the field, which the loop does not write; delta is not read
EdgeFlux(E, cond, alpha, delta, aKey, bKey) == Flux(E, cond, alpha, aKey, bKey)

\* the inner loop over halfDirs for the cell aKey, from direction i on
RECURSIVE WalkHalfDirs(_, _, _, _, _, _)
WalkHalfDirs(E, cond, alpha, delta, aKey, i) ==
    IF i > 3 THEN delta
    ELSE LET bKey == hexCubeKey(hexAdd(parseHexCubeKey(aKey), HalfDirs[i]))
         IN  IF bKey \notin DOMAIN E
             THEN WalkHalfDirs(E, cond, alpha, delta, aKey, i + 1)
             ELSE LET flux == EdgeFlux(E, cond, alpha, delta, aKey, bKey)
                  IN  WalkHalfDirs(E, cond, alpha,
                          [delta EXCEPT ![aKey] = RSub(@, flux), ![bKey] = RAdd(@, flux)],
                          aKey, i + 1)

\* the outer loop over the cells in the given order
RECURSIVE DiffusionPass(_, _, _, _, _)
DiffusionPass(E, cond, alpha, delta, order) ==
    IF order = <<>> THEN delta
    ELSE DiffusionPass(E, cond, alpha,
                       WalkHalfDirs(E, cond, alpha, delta, Head(order), 1), Tail(order))

\* the orders in which a Map with the key set S can yield its keys
KeyOrders(S) ==
    { f \in [1 .. Cardinality(S) -> S] : \A i, j \in 1 .. Cardinality(S) : i # j => f[i] # f[j] }

\* fields of MaxPassCells cells that hold the centre and its first
\* neighbour, the centre hot; a shield or an active source at the centre
PassBoards ==
    { [MockState(FieldWith(cells, Centre, I(100), I(10)), BoardRadius, <<1, 10>>) EXCEPT
          !.entities = EntityMap(ents)] :
        cells \in { S \in SUBSET generateHexagon(1) : Cardinality(S) = MaxPassCells /\ {Centre, HEX_CUBE_DIRS[1]} \subseteq S },
        ents \in { {ShieldEntity(Centre, <<1, 2>>, NoGroup, Undefined, FALSE)},
                   {SourceEntity(Centre, I(50), TRUE, NoGroup)} } }

\* steps 0.5 to 5 of a tick with the cells of the diffusion loop visited in
\* the order aux.mid.order
RunDiffusionPass ==
    /\ aux.op = "pass"
    /\ LET Esnapped == SnapSinks(state, state.E, state.reservoirs)
           cond == ConductivityByKey(state, Esnapped)
           Einjected == InjectSources(state, Esnapped)
           deltaE == DiffusionPass(Einjected, cond, state.diffusionAlpha,
                                   [k \in DOMAIN Einjected |-> Zero], aux.mid.order)
       IN  /\ state' = [state EXCEPT !.E = ApplyDelta(state, Einjected, deltaE)]
           /\ aux' = [aux EXCEPT
                         !.op = "diffused",
                         !.mid = [order |-> aux.mid.order, Einjected |-> Einjected,
                                  conductivityByKey |-> cond, deltaE |-> deltaE]]

PassInit ==
    /\ state \in PassBoards
    /\ \E order \in KeyOrders(DOMAIN state.E) :
          aux = [op |-> "pass", prev |-> state, rolls |-> {},
                 mid |-> [order |-> order, Einjected |-> state.E,
                          conductivityByKey |-> state.E, deltaE |-> state.E],
                 group |-> NoGroup, ret |-> FALSE, held |-> state.E]

PassNext == RunDiffusionPass

PassSpec == PassInit /\ [][PassNext]_vars

(***************************************************************************)
(* The animation loop: while the game is playing, every frame calls        *)
(* game.tick().  The banks of these boards start empty, part full or full, *)
(* with a drain of 0, 2, 3 or more than the bank holds; the group of the   *)
(* bank has no probes, or two probes that are switched off, or two probes  *)
(* at throttle 1 next to a hot cell.                                       *)
(***************************************************************************)
MaxDrainTicks == 6

DrainBoards ==
    { [MockState(FieldWith(Board, HEX_CUBE_DIRS[1], hot, Zero), BoardRadius, <<1, 10>>) EXCEPT
          !.entities = EntityMap(probes),
          !.probeThrottles = throttles,
          !.capacitors = [g \in {1} |-> Capacitor(1, stored, I(10), drain, I(5))]] :
        stored \in {Zero, I(3), I(10)},
        drain \in {Zero, I(2), I(3), I(20)},
        hot \in {Zero, I(100)},
        probes \in {{}, {ProbeEntity(HEX_CUBE_DIRS[1], 1, Undefined, FALSE),
                         ProbeEntity(HEX_CUBE_DIRS[4], 1, Undefined, FALSE)}},
        throttles \in {<<>>, [g \in {1} |-> Zero], [g \in {1} |-> One]} }

DrainInit ==
    /\ state \in { s \in DrainBoards :
                     s.E[HEX_CUBE_DIRS[1]] = Zero \/ MapGet(s.probeThrottles, 1, Zero) = One }
    /\ aux = [op |-> "init", prev |-> state, rolls |-> {}, mid |-> NoMid,
              group |-> NoGroup, ret |-> FALSE, held |-> state.E]

\* the loop is playing and the numbers are within the range modelled
FrameDue == state.tickCount < MaxDrainTicks /\ Magnitude(state) <= MaxMagnitude

\* one frame of the loop: game.tick()
FrameTick ==
    /\ FrameDue
    /\ \E rolls \in SUBSET OverheatCandidates(state) :
          \E r \in {tickSimulation(state, rolls)} :
              /\ state' = r.nextState
              /\ aux' = [op |-> "tick", prev |-> state, rolls |-> rolls, mid |-> r.mid,
                         group |-> NoGroup, ret |-> FALSE, held |-> aux.held]

DrainNext == FrameTick

\* weak fairness of FrameTick, its enabling condition written as the state
\* predicate FrameDue: a loop that is playing keeps ticking
FairFrames == ([]<>~FrameDue) \/ ([]<><<FrameTick>>_vars)

DrainSpec == DrainInit /\ [][DrainNext]_vars /\ FairFrames

(***************************************************************************)
(* The boards with probes under ticks alone: the probe, line-of-sight and  *)
(* plant boards of Spec, and the boards on which a shield or a probe fails *)
(* in the tick that matters or a group sits at the equilibrium cut-off.    *)
(***************************************************************************)
ProbeInit ==
    /\ state \in ProbeBoards \cup LosBoards \cup PlantBoards \cup FailureBoards
                    \cup ThresholdBoards
    /\ aux = [op |-> "init", prev |-> state, rolls |-> {}, mid |-> NoMid,
              group |-> NoGroup, ret |-> FALSE, held |-> state.E]

ProbeNext == Tick

ProbeSpec == ProbeInit /\ [][ProbeNext]_vars

(***************************************************************************)
(* Properties.  A property about "a tick" reads the last operation from    *)
(* aux: aux.prev is the state the tick was given, state the one it         *)
(* returned, aux.rolls the entities whose failure trial came out           *)
(* "destroyed", aux.mid the intermediate values.                           *)
(***************************************************************************)
TotalE(E) == RSum(E, DOMAIN E)

AfterTick == aux.op = "tick"

\* the tick had no source entity, no sink entity, and no probe group
\* recorded extracted energy
ClosedTick ==
    /\ AfterTick
    /\ EntitiesOfType(aux.prev, "source") = {}
    /\ EntitiesOfType(aux.prev, "sink") = {}
    /\ DOMAIN state.lastTickEnergy = {}

\* C1 (conservation): with no source entities, no sink entities and no
\* probe group that extracts, a tick leaves the sum of E over all cells
\* unchanged - diffusion only moves heat between cells.
C1_Conservation == ClosedTick => TotalE(state.E) = TotalE(aux.prev.E)

\* a closed tick that moved heat past an enabled, intact shield of
\* conductivity below the base one
C1_Witness ==
    /\ ClosedTick
    /\ state.E # aux.prev.E
    /\ \E sh \in EntitiesOfType(aux.prev, "shield") :
          /\ ~sh.destroyed
          /\ sh.groupId \notin aux.prev.disabledShieldGroups
          /\ RLt(sh.conductivity, aux.prev.baseConductivity)
          /\ state.E[hexCubeKey(sh.pos)] # aux.prev.E[hexCubeKey(sh.pos)]

\* C2 (capacitor bound): from capacitors with capacity >= 0, drainRate >= 0,
\* surchargeCost >= 0 and 0 <= stored <= capacity, every capacitor keeps
\* 0 <= stored <= capacity after any sequence of ticks and dischargeBank
\* calls.
C2_CapacitorBound ==
    \A id \in DOMAIN state.capacitors :
        /\ RLe(Zero, state.capacitors[id].stored)
        /\ RLe(state.capacitors[id].stored, state.capacitors[id].capacity)

\* a successful discharge of a bank that the last tick both drained and
\* filled
C2_Witness ==
    /\ aux.op = "discharge"
    /\ aux.ret
    /\ state.tickCount >= 1
    /\ aux.group \in DOMAIN state.lastTickEnergy
    /\ RLt(Zero, state.lastTickEnergy[aux.group])
    /\ RLt(Zero, state.capacitors[aux.group].drainRate)
    /\ RLt(state.capacitors[aux.group].stored, aux.prev.capacitors[aux.group].stored)

\* C3 (destroyed is terminal): an entity whose destroyed flag is true
\* keeps it true through every later step; no path resets the flag.
C3_DestroyedTerminal ==
    [][\A k \in DOMAIN state.entities :
          state.entities[k].destroyed =>
              k \in DOMAIN state'.entities /\ state'.entities[k].destroyed]_vars

\* the second tick of a run whose first tick destroyed an entity by
\* overheat: the entity is destroyed before and after this tick, and this
\* tick's trial for it did not come out "destroyed"
C3_Witness ==
    /\ AfterTick
    /\ state.tickCount = 2
    /\ \E k \in DOMAIN aux.prev.entities :
          /\ aux.prev.entities[k].destroyed
          /\ aux.prev.entities[k].heatTolerance = I(10)
          /\ state.entities[k].destroyed
          /\ k \notin aux.rolls

\* the cells of the live probes of group g in the state the tick was given
ProbeCellsOf(s, g) ==
    { hexCubeKey(p.pos) :
        p \in { x \in EntitiesOfType(s, "probe") : ~x.destroyed /\ ProbeGroupOf(x) = g } }

FullAtStart(s, g) == g \in DOMAIN s.capacitors /\ RLe(s.capacitors[g].capacity, s.capacitors[g].stored)

\* C4 (capacitor full-stop): if a group's capacitor has stored >= capacity
\* at the start of a tick, the group's effective throttle is 0 in that
\* tick: the group records no extracted energy and extraction changes
\* none of its cells - even though the drain of the same tick leaves room.
C4_FullStop ==
    AfterTick =>
        \A g \in DOMAIN aux.prev.capacitors :
            FullAtStart(aux.prev, g) =>
                /\ MapGet(aux.mid.effectiveProbeThrottles, g, Zero) = Zero
                /\ g \notin DOMAIN state.lastTickEnergy
                /\ \A k \in ProbeCellsOf(aux.prev, g) :
                      aux.mid.Eextracted[k] = aux.mid.EbeforeExtraction[k]

\* a tick given a full bank that drains, a positive caller throttle and
\* two live probes at different temperatures
C4_Witness ==
    /\ AfterTick
    /\ \E g \in DOMAIN aux.prev.capacitors :
          /\ FullAtStart(aux.prev, g)
          /\ RLt(Zero, aux.prev.capacitors[g].drainRate)
          /\ RLt(state.capacitors[g].stored, state.capacitors[g].capacity)
          /\ RLt(Zero, MapGet(aux.prev.probeThrottles, g, Zero))
          /\ \E a, b \in ProbeCellsOf(aux.prev, g) :
                RLt(aux.mid.EbeforeExtraction[a], aux.mid.EbeforeExtraction[b])

\* an active source and a live probe two cells apart on a straight line,
\* direction i leading from the source to the cell between them
InLine(src, p, i) ==
    /\ src.active
    /\ ~p.destroyed
    /\ p.pos = hexAdd(src.pos, hexScale(HEX_CUBE_DIRS[i], 2))

Between(src, i) == hexCubeKey(hexAdd(src.pos, HEX_CUBE_DIRS[i]))

ShieldGated(s, sh) == sh.groupId # NoGroup /\ sh.groupId \in s.disabledShieldGroups

\* (a) the cell between holds nothing and the board has no shield
C5_Open(s, src, i) ==
    /\ Between(src, i) \notin DOMAIN s.entities
    /\ EntitiesOfType(s, "shield") = {}

\* (b) the cell between holds an intact shield whose group is not disabled,
\* neither it nor the probe fails by overheat in this tick, and src is the
\* only active source
C5_Blocked(s, rolls, src, p, i) ==
    /\ Between(src, i) \in DOMAIN s.entities
    /\ s.entities[Between(src, i)].type = "shield"
    /\ ~s.entities[Between(src, i)].destroyed
    /\ ~ShieldGated(s, s.entities[Between(src, i)])
    /\ Between(src, i) \notin rolls
    /\ hexCubeKey(p.pos) \notin rolls
    /\ { x \in EntitiesOfType(s, "source") : x.active } = {src}

\* (c) the only shield of the board is the one between, and its group is
\* in disabledShieldGroups
C5_Gated(s, src, i) ==
    /\ Between(src, i) \in DOMAIN s.entities
    /\ EntitiesOfType(s, "shield") = {s.entities[Between(src, i)]}
    /\ ShieldGated(s, s.entities[Between(src, i)])

C5_Cases(s, rolls, after, src, p, i) ==
    /\ C5_Open(s, src, i) => after[hexCubeKey(p.pos)].destroyed
    /\ C5_Blocked(s, rolls, src, p, i) => ~after[hexCubeKey(p.pos)].destroyed
    /\ C5_Gated(s, src, i) => after[hexCubeKey(p.pos)].destroyed

ToleranceOf(e) ==
    IF e.heatTolerance # Undefined THEN e.heatTolerance
    ELSE IF e.type = "shield" THEN I(2000)
    ELSE IF e.type = "sink" THEN I(1400)
    ELSE I(1800)

\* the field of state s at cell k, 0 if the cell is absent
FieldAt(s, k) == IF k \in DOMAIN s.E THEN s.E[k] ELSE Zero

\* entity e of state s can be destroyed by the overheat check only: a
\* shield, a sink, or a probe on a board without an active source
OverheatOnly(s, e) ==
    \/ e.type \in {"shield", "sink"}
    \/ e.type = "probe" /\ \A src \in EntitiesOfType(s, "source") : ~src.active

\* C7 (overheat safety): a tick destroys a shield, sink or probe by
\* overheat only if the field of the prior state at its cell (0 if absent)
\* is strictly greater than its tolerance (heatTolerance, or 2000 / 1400 /
\* 1800 by type); at or below the tolerance it is never destroyed.
C7_OverheatSafety ==
    AfterTick =>
        \A k \in DOMAIN aux.prev.entities :
            ( /\ OverheatOnly(aux.prev, aux.prev.entities[k])
              /\ ~aux.prev.entities[k].destroyed
              /\ state.entities[k].destroyed )
            => RLt(ToleranceOf(aux.prev.entities[k]), FieldAt(aux.prev, k))

\* a tick destroyed a shield without a heatTolerance whose cell held 2001
C7_Witness ==
    /\ AfterTick
    /\ \E k \in DOMAIN aux.prev.entities :
          /\ aux.prev.entities[k].type = "shield"
          /\ aux.prev.entities[k].heatTolerance = Undefined
          /\ ~aux.prev.entities[k].destroyed
          /\ state.entities[k].destroyed
          /\ FieldAt(aux.prev, k) = I(2001)

\* C8 (sink cell equals reservoir temperature): in the state a tick
\* returns, the cell of every sink whose group has a reservoir holds
\* reservoir.heat / max(1, reservoir.volume), heat being the reservoir's
\* heat after that tick.
C8_SinkCell ==
    AfterTick =>
        \A x \in EntitiesOfType(state, "sink") :
            x.groupId \in DOMAIN state.reservoirs =>
                /\ hexCubeKey(x.pos) \in DOMAIN state.E
                /\ state.E[hexCubeKey(x.pos)] =
                      RDiv(state.reservoirs[x.groupId].heat,
                           RMax(One, state.reservoirs[x.groupId].volume))

\* a tick changed the heat of a reservoir of volume above 1 and with it
\* the cell of the group's sink
C8_Witness ==
    /\ AfterTick
    /\ \E x \in EntitiesOfType(state, "sink") :
          /\ x.groupId \in DOMAIN state.reservoirs
          /\ RLt(One, state.reservoirs[x.groupId].volume)
          /\ state.reservoirs[x.groupId].heat # aux.prev.reservoirs[x.groupId].heat
          /\ hexCubeKey(x.pos) \in DOMAIN aux.prev.E
          /\ state.E[hexCubeKey(x.pos)] # aux.prev.E[hexCubeKey(x.pos)]

\* C9 (destroyed sink does not pull): a tick given a destroyed sink, the
\* only sink of its group, and no deployed radiator leaves the heat of the
\* group's reservoir unchanged, whatever the neighbouring cells hold.
C9_DestroyedSinkInert ==
    AfterTick =>
        \A x \in EntitiesOfType(aux.prev, "sink") :
            ( /\ x.destroyed
              /\ x.groupId \in DOMAIN aux.prev.reservoirs
              /\ { y \in EntitiesOfType(aux.prev, "sink") : y.groupId = x.groupId } = {x}
              /\ ~aux.prev.reservoirs[x.groupId].radiator.deployed )
            => state.reservoirs[x.groupId].heat = aux.prev.reservoirs[x.groupId].heat

\* state s without the entity at key k
RemoveEntity(s, k) ==
    [s EXCEPT !.entities = [x \in (DOMAIN s.entities) \ {k} |-> s.entities[x]]]

\* C10 (shield gating): a shield whose group is in disabledShieldGroups
\* contributes nothing to conductivity: the field a tick returns equals the
\* field the tick returns with that shield removed, and the shield's cell
\* conducts with baseConductivity (no sink shares the cell).
C10_ShieldGating ==
    AfterTick =>
        \A k \in DOMAIN aux.prev.entities :
            (aux.prev.entities[k].type = "shield" /\ ShieldGated(aux.prev, aux.prev.entities[k]))
            => /\ state.E = tickSimulation(RemoveEntity(aux.prev, k), aux.rolls \ {k}).nextState.E
               /\ k \in DOMAIN aux.mid.conductivityByKey
                    => aux.mid.conductivityByKey[k] = aux.prev.baseConductivity

\* a tick moved heat through the cell of an intact shield of conductivity
\* below the base one whose group is disabled
C10_Witness ==
    /\ AfterTick
    /\ \E k \in DOMAIN aux.prev.entities :
          /\ aux.prev.entities[k].type = "shield"
          /\ ShieldGated(aux.prev, aux.prev.entities[k])
          /\ ~aux.prev.entities[k].destroyed
          /\ RLt(aux.prev.entities[k].conductivity, aux.prev.baseConductivity)
          /\ state.E[k] # aux.prev.E[k]

\* the entity at cell k is a shield, sink or probe whose cell is held above
\* its tolerance at the start of every tick
HeldOver(k) ==
    /\ k \in DOMAIN state.entities
    /\ state.entities[k].type \in {"shield", "sink", "probe"}
    /\ RLt(ToleranceOf(state.entities[k]), MapGet(aux.held, k, Zero))

IsDestroyed(k) == k \in DOMAIN state.entities /\ state.entities[k].destroyed

\* C6 (overheat liveness): a shield, sink or probe whose cell value at the
\* start of every tick stays above its tolerance is eventually destroyed,
\* the per-tick failure trial being fair.
C6_OverheatLiveness == \A k \in TrialCells : HeldOver(k) ~> IsDestroyed(k)

\* an iteration of the loop destroyed a sink held above the default
\* tolerance of sinks
C6_Witness ==
    /\ aux.op = "heldTick"
    /\ \E k \in DOMAIN aux.prev.entities :
          /\ HeldOver(k)
          /\ aux.prev.entities[k].type = "sink"
          /\ aux.prev.entities[k].heatTolerance = Undefined
          /\ ~aux.prev.entities[k].destroyed
          /\ k \in aux.rolls
          /\ IsDestroyed(k)

\* C11 (field domain): the key set of the field a tick returns equals the
\* key set of the field it was given: no tick adds a cell, not even for an
\* entity positioned outside the domain, and no tick removes one.
C11_DomainFixed == AfterTick => DOMAIN state.E = DOMAIN aux.prev.E

\* the entity at key k of state s stands outside the field of s
OutOfDomain(s, k) == k \in DOMAIN s.entities /\ k \notin DOMAIN s.E

\* C12 (out-of-domain entities): for an entity positioned at a key that is
\* not in the field, the field, reservoirs, capacitors, collected energy and
\* destroyed flags a tick returns are those it returns for the state
\* without the entity, and the entity itself is not destroyed.
C12_OutOfDomainNoOp ==
    AfterTick =>
        \A k \in DOMAIN aux.prev.entities :
            OutOfDomain(aux.prev, k) =>
                LET r == tickSimulation(RemoveEntity(aux.prev, k), aux.rolls \ {k})
                IN  /\ state.E = r.nextState.E
                    /\ state.reservoirs = r.nextState.reservoirs
                    /\ state.capacitors = r.nextState.capacitors
                    /\ state.lastTickEnergy = r.energyCollected
                    /\ \A j \in DOMAIN r.nextState.entities :
                          state.entities[j].destroyed = r.nextState.entities[j].destroyed
                    /\ state.entities[k].destroyed = aux.prev.entities[k].destroyed

OverTolerance(s) ==
    { k \in DOMAIN s.entities :
        /\ s.entities[k].type \in {"shield", "sink", "probe"}
        /\ ~s.entities[k].destroyed
        /\ RLt(ToleranceOf(s.entities[k]), FieldAt(s, k)) }

\* the result (next state and collected-energy map) of tickSimulation(s)
\* when the random source destroys exactly the tried entities among rolls
Outcome(s, rolls) ==
    LET r == tickSimulation(s, rolls)
    IN  [nextState |-> r.nextState, energyCollected |-> r.energyCollected]

\* C14 (determinism): the result of a tick (next state and collected-energy
\* map) is decided by the input state and the random values drawn for the
\* intact shields, sinks and probes above their heat tolerance: whatever
\* the random source would return for any other entity, the result is the
\* same.  From a state with no entity above its tolerance every tick
\* returns the same result.
C14_Determinism ==
    AfterTick =>
        \A rolls \in (SUBSET DOMAIN aux.prev.entities) \ {aux.rolls} :
            rolls \cap OverTolerance(aux.prev) = aux.rolls \cap OverTolerance(aux.prev)
            => Outcome(aux.prev, rolls)
                  = [nextState |-> state, energyCollected |-> state.lastTickEnergy]

\* a tick changed the field of a state that holds an intact shield, sink
\* or probe on a warm cell, none of them above its tolerance, and every
\* value of the random source gives the state the tick returned
C14_Witness ==
    /\ AfterTick
    /\ OverTolerance(aux.prev) = {}
    /\ \E k \in DOMAIN aux.prev.entities :
          /\ aux.prev.entities[k].type \in {"shield", "sink", "probe"}
          /\ ~aux.prev.entities[k].destroyed
          /\ RLt(Zero, FieldAt(aux.prev, k))
    /\ state.E # aux.prev.E
    /\ \A rolls \in SUBSET DOMAIN aux.prev.entities :
          Outcome(aux.prev, rolls).nextState = state

\* the cells of field E next to cell c
InDomainNeighbours(E, c) == { hexNeighbor(c, i) : i \in 0 .. 5 } \cap DOMAIN E

\* the board of the stability test: seven cells, the centre at 100
StabilityBoard(alpha) ==
    MockState(FieldWith(generateHexagon(1), Centre, I(100), Zero), 1, alpha)

\* C15 (no stability clamp): from the seven-cell board (centre 100, ring 0,
\* baseConductivity 1, no entities) one tick with diffusionAlpha 0.1
\* returns centre 40 and ring cells 10 (total 100), and one tick with
\* diffusionAlpha 0.9 returns a negative centre; on any board without
\* entities a cell of value v whose n in-domain neighbours are all 0 ends
\* the tick at v * (1 - n * baseConductivity * diffusionAlpha), unclamped.
C15_NoStabilityClamp ==
    AfterTick =>
        /\ aux.prev = StabilityBoard(<<1, 10>>)
              => /\ state.E = FieldWith(generateHexagon(1), Centre, I(40), I(10))
                 /\ TotalE(state.E) = I(100)
        /\ aux.prev = StabilityBoard(<<9, 10>>) => RLt(state.E[Centre], Zero)
        /\ DOMAIN aux.prev.entities = {}
              => \A c \in DOMAIN aux.prev.E :
                    (\A n \in InDomainNeighbours(aux.prev.E, c) : aux.prev.E[n] = Zero)
                    => state.E[c] =
                          RMul(aux.prev.E[c],
                               RSub(One, RMul(I(Cardinality(InDomainNeighbours(aux.prev.E, c))),
                                              RMul(aux.prev.baseConductivity,
                                                   aux.prev.diffusionAlpha))))

\* one tick with diffusionAlpha 0.9 took the centre of the seven-cell board
\* from 100 to -440
C15_Witness ==
    /\ AfterTick
    /\ aux.prev = StabilityBoard(<<9, 10>>)
    /\ state.E[Centre] = I(-440)

\* the probe groups the extraction step of the last tick processed
ProcessedGroups == { g \in DOMAIN aux.mid.extraction : aux.mid.extraction[g].processed }

\* the cells of processed group g whose value before extraction is above
\* (hot) or below (cold) the group's mean
HotCells(g) ==
    { k \in DOMAIN aux.mid.extraction[g].change :
        RLt(aux.mid.extraction[g].mean, aux.mid.EbeforeExtraction[k]) }

ColdCells(g) ==
    { k \in DOMAIN aux.mid.extraction[g].change :
        RLt(aux.mid.EbeforeExtraction[k], aux.mid.extraction[g].mean) }

\* what the extraction step added to cell k of the field
ExtractionChange(k) == RSub(aux.mid.Eextracted[k], aux.mid.EbeforeExtraction[k])

\* C16 (extraction accounting): for every probe group a tick processes,
\* the extraction changes of the group's cells sum to minus the recorded
\* work (hot cells lose qMove in total, cold cells gain qMove - work), the
\* recorded work is 0.3 * qMove, the group's capacitor gains exactly that
\* work, and extraction changes no cell outside the processed groups.
C16_ExtractionAccounting ==
    AfterTick =>
        /\ \A g \in ProcessedGroups :
              LET x == aux.mid.extraction[g]
              IN  /\ RSum([k \in DOMAIN x.change |-> ExtractionChange(k)], DOMAIN x.change)
                        = RNeg(x.work)
                  /\ RSum([k \in HotCells(g) |-> ExtractionChange(k)], HotCells(g))
                        = RNeg(x.qMove)
                  /\ RSum([k \in ColdCells(g) |-> ExtractionChange(k)], ColdCells(g))
                        = RSub(x.qMove, x.work)
                  /\ x.work = RMul(<<3, 10>>, x.qMove)
                  /\ state.lastTickEnergy[g] = x.work
                  /\ g \in DOMAIN aux.mid.capsDrained
                        => aux.mid.capacitors[g].stored
                              = RAdd(aux.mid.capsDrained[g].stored, x.work)
        /\ DOMAIN state.lastTickEnergy = ProcessedGroups
        /\ \A k \in DOMAIN aux.mid.Eextracted :
              (\A g \in ProcessedGroups : k \notin DOMAIN aux.mid.extraction[g].change)
              => ExtractionChange(k) = Zero

\* a tick processed a probe group that has a capacitor: heat moved, and
\* the move was cut to the room of the capacitor
C16_Witness ==
    /\ AfterTick
    /\ \E g \in ProcessedGroups :
          /\ RLt(Zero, aux.mid.extraction[g].work)
          /\ g \in DOMAIN aux.mid.capsDrained
          /\ aux.mid.capacitors[g].stored = aux.mid.capacitors[g].capacity
          /\ RLt(aux.mid.capsDrained[g].stored, aux.mid.capacitors[g].stored)
          /\ HotCells(g) # {} /\ ColdCells(g) # {}

\* C17 (shield toggle round trip): toggleShieldGroup(g) on an enabled group
\* adds g to the disabled set, stores the field value of each cell of a
\* group-g shield in the shield's bookkeeping field and sets the cell to 0;
\* on a disabled group it removes g from the disabled set, writes each
\* stored value back to its cell and clears the bookkeeping field.
C17_ToggleRoundTrip ==
    aux.op = "toggle" =>
        LET g == aux.group
            cells == ShieldsOfGroup(aux.prev.entities, g) \cap DOMAIN aux.prev.E
        IN  IF g \notin aux.prev.disabledShieldGroups
            THEN /\ g \in state.disabledShieldGroups
                 /\ \A k \in cells :
                       /\ state.entities[k].savedTemp = aux.prev.E[k]
                       /\ state.E[k] = Zero
            ELSE /\ g \notin state.disabledShieldGroups
                 /\ \A k \in cells :
                       aux.prev.entities[k].savedTemp # Undefined
                       => /\ state.E[k] = aux.prev.entities[k].savedTemp
                          /\ state.entities[k].savedTemp = Undefined

\* C18 (discharge is atomic): dischargeBank(g) returns true and lowers the
\* stored charge of capacitor g by exactly surchargeCost, changing nothing
\* else, when the capacitor exists and stored >= surchargeCost; otherwise
\* it returns false and changes nothing.  A tick performs no discharge: it
\* lowers a capacitor's charge by the drain (and the cap at capacity) only
\* and leaves surchargeCost, capacity and drainRate alone.
C18_DischargeAtomic ==
    /\ aux.op = "discharge" =>
          LET g == aux.group
              caps == aux.prev.capacitors
          IN  IF g \in DOMAIN caps /\ RLe(caps[g].surchargeCost, caps[g].stored)
              THEN /\ aux.ret
                   /\ state.capacitors[g].stored = RSub(caps[g].stored, caps[g].surchargeCost)
                   /\ state = [aux.prev EXCEPT
                                  !.capacitors[g].stored = state.capacitors[g].stored]
              ELSE ~aux.ret /\ state = aux.prev
    /\ AfterTick =>
          /\ DOMAIN state.capacitors = DOMAIN aux.prev.capacitors
          /\ \A g \in DOMAIN aux.prev.capacitors :
                LET before == aux.prev.capacitors[g]
                    after == state.capacitors[g]
                IN  /\ RLe(RMin(before.capacity, RSub(before.stored, before.drainRate)),
                           after.stored)
                    /\ after.surchargeCost = before.surchargeCost
                    /\ after.capacity = before.capacity
                    /\ after.drainRate = before.drainRate

\* a discharge that succeeded on a bank holding more than the cost
C18_Witness ==
    /\ aux.op = "discharge"
    /\ aux.ret
    /\ RLt(Zero, state.capacitors[aux.group].stored)
    /\ state.capacitors[aux.group].stored
          = RSub(aux.prev.capacitors[aux.group].stored,
                 aux.prev.capacitors[aux.group].surchargeCost)

\* a discharge refused by a bank that holds charge, but less than the cost
C18_RefusedWitness ==
    /\ aux.op = "discharge"
    /\ ~aux.ret
    /\ aux.group \in DOMAIN aux.prev.capacitors
    /\ RLt(Zero, aux.prev.capacitors[aux.group].stored)
    /\ state = aux.prev

\* the snapshot can be applied in full: it parses to an object and none
\* of its lists is malformed
FullyApplicable(json) ==
    /\ json.kind = "object"
    /\ \A i \in 1 .. Len(json.entities) : json.entities[i].ok
    /\ json.groupThrottles.kind # "malformed"
    /\ json.probeThrottles.kind # "malformed"
    /\ \A i \in 1 .. Len(json.capacitors) : json.capacitors[i].ok

\* C19 (restore is all-or-nothing): when deserialize is given a snapshot
\* that cannot be applied in full, the failure is reported to the caller
\* and the field, the entity map, the throttles and the capacitors are as
\* they were before the call.
C19_RestoreAllOrNothing ==
    (aux.op = "deserialize" /\ ~FullyApplicable(aux.mid.json)) =>
        /\ aux.ret
        /\ state.E = aux.prev.E
        /\ state.entities = aux.prev.entities
        /\ state.groupThrottles = aux.prev.groupThrottles
        /\ state.probeThrottles = aux.prev.probeThrottles
        /\ state.capacitors = aux.prev.capacitors

\* the same without the report: a snapshot that cannot be applied in full
\* leaves the field, entities, throttles and capacitors as they were
C19_NothingApplied ==
    (aux.op = "deserialize" /\ ~FullyApplicable(aux.mid.json)) =>
        /\ state.E = aux.prev.E
        /\ state.entities = aux.prev.entities
        /\ state.groupThrottles = aux.prev.groupThrottles
        /\ state.probeThrottles = aux.prev.probeThrottles
        /\ state.capacitors = aux.prev.capacitors

\* corner i of cell a and corner j of cell b see each other: the segment
\* between them intersects none of the inflated polygons of the obstacles
ClearRay(a, i, b, j, obstacles) ==
    LET p == hexCorners(a)[i]
        q == hexCorners(b)[j]
    IN  \A o \in obstacles : ~segmentIntersectsPolygon(p, q, inflated(o))

\* C20 (any-ray rule): hexCornerLOS(a, b, obstacles) is hexDistance(a, b)
\* if and only if at least one of the 36 corner-to-corner segments
\* intersects none of the inflated obstacle polygons, and NaN otherwise;
\* with no blocked cell it is hexDistance(a, b).
C20_AnyRay ==
    aux.op = "los" =>
        LET a == aux.mid.a
            b == aux.mid.b
            clear == \E i, j \in 1 .. 6 : ClearRay(a, i, b, j, aux.mid.obstacles)
        IN  /\ (aux.mid.los = hexDistance(a, b)) <=> clear
            /\ ~clear => aux.mid.los = NaN
            /\ aux.mid.obstacles = {} => aux.mid.los = hexDistance(a, b)

\* a query between two cells and past an obstacle that is neither of
\* them, with some of the 36 segments obstructed and some clear
C20_Witness ==
    /\ aux.op = "los"
    /\ aux.mid.a # aux.mid.b
    /\ aux.mid.obstacles # {}
    /\ aux.mid.a \notin aux.mid.obstacles /\ aux.mid.b \notin aux.mid.obstacles
    /\ aux.mid.los = hexDistance(aux.mid.a, aux.mid.b)
    /\ \E i, j \in 1 .. 6 : ~ClearRay(aux.mid.a, i, aux.mid.b, j, aux.mid.obstacles)

\* a query in which every one of the 36 segments is obstructed
C20_BlockedWitness ==
    /\ aux.op = "los"
    /\ aux.mid.a \notin aux.mid.obstacles /\ aux.mid.b \notin aux.mid.obstacles
    /\ aux.mid.los = NaN

Aligned2(a, b) == \E d \in 1 .. 6 : b = hexAdd(a, hexScale(HEX_CUBE_DIRS[d], 2))

\* the cell directly between two aligned cells that are 2 apart
MidCell(a, b) == CHOOSE c \in RingCells(a, 1) : hexDistance(c, b) = 1

\* a cell next to the line from a to b: a neighbour of the cell between
\* them that is neither that cell nor an endpoint
Beside(a, b, o) == o \notin {a, b, MidCell(a, b)} /\ hexDistance(o, MidCell(a, b)) = 1

\* C22 (grazing past a thin obstacle): when the only obstacle is the single
\* cell directly between two cells that are 2 apart on a straight hex line,
\* hexCornerLOS between them returns 2; an obstacle beside the line also
\* leaves the result 2.
C22_Grazing ==
    /\ aux.op = "los"
    /\ Aligned2(aux.mid.a, aux.mid.b)
    /\ \/ aux.mid.obstacles = {MidCell(aux.mid.a, aux.mid.b)}
       \/ \E o \in RingCells(MidCell(aux.mid.a, aux.mid.b), 1) : Beside(aux.mid.a, aux.mid.b, o) /\ aux.mid.obstacles = {o}
    => aux.mid.los = 2

\* an obstacle beside the line leaves one of the 36 segments clear
C22_BesideLine ==
    /\ aux.op = "los"
    /\ Aligned2(aux.mid.a, aux.mid.b)
    /\ \E o \in RingCells(MidCell(aux.mid.a, aux.mid.b), 1) : Beside(aux.mid.a, aux.mid.b, o) /\ aux.mid.obstacles = {o}
    => aux.mid.los = 2

\* the cells at hex distance R from the origin
CellsAtDistance(R) ==
    IF R < 0 THEN {} ELSE { c \in generateHexagon(R) : hexLength(c) = R }

\* C23 (perimeter diagnostic): after a tick, lastPerimeterEnergy equals the
\* sum of the returned field over exactly the cells at hex distance = radius
\* from the origin, each counted once (hexRing yields 6*radius distinct
\* cells for radius >= 1, the origin alone for radius 0, none for a
\* negative radius), cells absent from the field counting as 0.
C23_Perimeter ==
    AfterTick =>
        LET R == aux.prev.radius
            ring == hexRing(Centre, R)
            cells == CellsAtDistance(R)
        IN  /\ state.lastPerimeterEnergy
                  = RSum([c \in cells |-> MapGet(state.E, hexCubeKey(c), Zero)], cells)
            /\ Len(ring) = IF R < 0 THEN 0 ELSE IF R = 0 THEN 1 ELSE 6 * R
            /\ \A i, j \in 1 .. Len(ring) : i # j => ring[i] # ring[j]
            /\ { ring[i] : i \in 1 .. Len(ring) } = cells

\* a tick of a board whose radius is at least 2, with heat on the ring and
\* heat off it, and a ring cell that holds more than another
C23_Witness ==
    /\ AfterTick
    /\ aux.prev.radius >= 2
    /\ state.lastPerimeterEnergy # Zero
    /\ state.lastPerimeterEnergy # TotalE(state.E)
    /\ \E c, d \in CellsAtDistance(aux.prev.radius) \cap DOMAIN state.E :
          RLt(state.E[c], state.E[d])

\* a tick of a board whose ring lacks cells of the field
C23_AbsentWitness ==
    /\ AfterTick
    /\ aux.prev.radius >= 1
    /\ state.lastPerimeterEnergy # Zero
    /\ \E c \in CellsAtDistance(aux.prev.radius) : c \notin DOMAIN state.E

\* the shields at cell k that are not destroyed and whose group is not
\* disabled, in the state the tick was given
IntactOpenShieldsAt(s, k) ==
    { x \in EntitiesOfType(s, "shield") :
        /\ hexCubeKey(x.pos) = k
        /\ ~x.destroyed
        /\ ~(x.groupId # NoGroup /\ x.groupId \in s.disabledShieldGroups) }

SinksAt(s, k) == { x \in EntitiesOfType(s, "sink") : hexCubeKey(x.pos) = k }

\* C24 (conductivity derivation): the conductivity used for an in-domain
\* cell during diffusion is the minimum of baseConductivity, the
\* conductivity of each shield at that cell that is not destroyed and whose
\* group is not disabled, and the conductivity of a sink at that cell; a
\* destroyed shield does not lower its cell's conductivity.
C24_Conductivity ==
    AfterTick =>
        \A k \in DOMAIN aux.prev.E :
            aux.mid.conductivityByKey[k]
                = RMinSet({aux.prev.baseConductivity}
                    \cup { sh.conductivity : sh \in IntactOpenShieldsAt(aux.prev, k) }
                    \cup { si.conductivity : si \in SinksAt(aux.prev, k) })

\* the same rule with destroyed shields counted like intact ones
C24_DestroyedShieldsCount ==
    AfterTick =>
        \A k \in DOMAIN aux.prev.E :
            aux.mid.conductivityByKey[k]
                = RMinSet({aux.prev.baseConductivity}
                    \cup { sh.conductivity :
                             sh \in { x \in EntitiesOfType(aux.prev, "shield") :
                                        /\ hexCubeKey(x.pos) = k
                                        /\ ~(x.groupId # NoGroup
                                               /\ x.groupId \in aux.prev.disabledShieldGroups) } }
                    \cup { si.conductivity : si \in SinksAt(aux.prev, k) })

\* the full-neighbour reference: minus alpha times the sum, over the
\* neighbours B of A that are cells of E, of min(k(A), k(B)) * (E(A) - E(B))
FullNeighbourDelta(E, cond, alpha, A) ==
    LET nb == { B \in { hexCubeKey(hexAdd(parseHexCubeKey(A), HEX_CUBE_DIRS[i])) : i \in 1 .. 6 } :
                  B \in DOMAIN E }
    IN  RNeg(RMul(alpha,
            RSum([B \in nb |-> RMul(RMin(cond[A], cond[B]), RSub(E[A], E[B]))], nb)))

\* C25 (each undirected edge is counted once): for every cell A of the
\* field after sink snap and source injection, the diffusion delta of the
\* tick equals minus alpha times the sum, over the neighbours B of A in the
\* domain, of min(k(A), k(B)) * (E(A) - E(B)): walking 3 of the 6 directions
\* from every cell gives the full-neighbour result for every domain shape.
C25_EdgeOnce ==
    AfterTick =>
        \A A \in DOMAIN aux.mid.Einjected :
            aux.mid.deltaE[A]
                = FullNeighbourDelta(aux.mid.Einjected, aux.mid.conductivityByKey,
                                     aux.prev.diffusionAlpha, A)

\* a tick in whose field a cell with fewer than six neighbours receives
\* flux over an edge it starts and over an edge that ends in it, the two
\* edges having different conductivities
C25_Witness ==
    /\ AfterTick
    /\ \E A \in DOMAIN aux.mid.Einjected :
          LET E == aux.mid.Einjected
              cond == aux.mid.conductivityByKey
              to(i) == hexCubeKey(hexAdd(parseHexCubeKey(A), HEX_CUBE_DIRS[i]))
          IN  /\ \E i \in 1 .. 6 : to(i) \notin DOMAIN E
              /\ \E i \in 1 .. 3, j \in 4 .. 6 :
                    /\ to(i) \in DOMAIN E /\ to(j) \in DOMAIN E
                    /\ E[to(i)] # E[A] /\ E[to(j)] # E[A]
                    /\ RMin(cond[A], cond[to(i)]) # RMin(cond[A], cond[to(j)])
              /\ aux.mid.deltaE[A] # Zero

\* C26 (accumulate-then-apply): all fluxes of a tick are computed from one
\* snapshot of the field (after injection) and applied only afterwards, so
\* the diffusion result is the same for every order in which the cells are
\* traversed; no flux is computed from a value already updated in the pass.
C26_OrderIndependent ==
    aux.op = "diffused" =>
        /\ aux.mid.deltaE
              = DeltaE(aux.mid.Einjected, aux.mid.conductivityByKey, aux.prev.diffusionAlpha)
        /\ \A order \in KeyOrders(DOMAIN aux.mid.Einjected) :
              DiffusionPass(aux.mid.Einjected, aux.mid.conductivityByKey,
                            aux.prev.diffusionAlpha,
                            [k \in DOMAIN aux.mid.Einjected |-> Zero], order)
                  = aux.mid.deltaE
        /\ state.E = [k \in DOMAIN aux.mid.Einjected |->
                         RAdd(aux.mid.Einjected[k], aux.mid.deltaE[k])]

\* a pass over a field in which a cell visited late shares an edge with a
\* cell visited before it whose delta was non-zero by then
C26_Witness ==
    /\ aux.op = "diffused"
    /\ \E i, j \in DOMAIN aux.mid.order :
          /\ i < j
          /\ hexDistance(aux.mid.order[i], aux.mid.order[j]) = 1
          /\ aux.mid.deltaE[aux.mid.order[i]] # Zero
          /\ aux.mid.deltaE[aux.mid.order[j]] # Zero
          /\ aux.mid.order[j] = Centre
    /\ aux.mid.conductivityByKey[Centre] # One

\* the heat a state holds outside its sink cells: the field over the
\* cells without a sink, plus the heat of the reservoirs
HeldHeat(s) ==
    RAdd(RSum(s.E, (DOMAIN s.E) \ SinkKeys(s)),
         RSum([id \in DOMAIN s.reservoirs |-> s.reservoirs[id].heat], DOMAIN s.reservoirs))

\* power times group throttle of every active source, 1 without an entry
InjectedPower(s) ==
    LET act == { x \in EntitiesOfType(s, "source") : x.active }
    IN  RSum([x \in act |->
                RMul(x.power, IF x.groupId \in DOMAIN s.groupThrottles
                              THEN s.groupThrottles[x.groupId] ELSE One)], act)

\* what the radiators took in the last tick: heat after accumulation minus
\* heat at the end of the tick
RadiatedHeat ==
    RSum([id \in DOMAIN state.reservoirs |->
            RSub(aux.mid.reservoirsExchanged[id].heat, state.reservoirs[id].heat)],
         DOMAIN state.reservoirs)

CollectedWork == RSum(state.lastTickEnergy, DOMAIN state.lastTickEnergy)

\* every entity lies in the domain and every sink's group has a reservoir
BalancedInput(s) ==
    /\ DOMAIN s.entities \subseteq DOMAIN s.E
    /\ \A x \in EntitiesOfType(s, "sink") : x.groupId \in DOMAIN s.reservoirs

\* C27 (global energy balance): for states where every entity lies in the
\* domain and every sink's group has a reservoir, over any tick the field
\* over the non-sink cells plus the reservoir heat at the end equals the
\* same quantity at the start, plus the injected power of every active
\* source (power times group throttle, 1 without a throttle entry), minus
\* the radiator loss, minus the work collected by the probe groups.
C27_EnergyBalance ==
    (AfterTick /\ BalancedInput(aux.prev)) =>
        HeldHeat(state)
            = RSub(RSub(RAdd(HeldHeat(aux.prev), InjectedPower(aux.prev)), RadiatedHeat),
                   CollectedWork)

\* a tick in which a throttled source injects, a sink cell passes
\* diffused heat to its reservoir, the radiator sheds heat and a probe
\* group collects work
C27_Witness ==
    /\ AfterTick
    /\ BalancedInput(aux.prev)
    /\ aux.prev.groupThrottles # <<>>
    /\ InjectedPower(aux.prev) # Zero
    /\ RadiatedHeat # Zero
    /\ CollectedWork # Zero
    /\ \E k \in SinkKeys(aux.prev) : aux.mid.deltaE[k] # Zero

\* the sinks of group id in state s
SinksOfGroup(s, id) == { x \in EntitiesOfType(s, "sink") : x.groupId = id }

\* C28 (sink routing): in a tick, a reservoir's heat before radiator loss
\* equals its prior heat plus, for every sink of its group, the source
\* input and the diffusion delta computed for that sink's cell; the
\* diffusion delta of a sink cell is never added to the field cell itself:
\* after the exchange the cell holds the temperature of its reservoir, or
\* what it held before diffusion when its group has no reservoir.
C28_SinkRouting ==
    AfterTick =>
        /\ \A id \in DOMAIN aux.prev.reservoirs :
              aux.mid.reservoirsExchanged[id].heat
                  = RAdd(aux.prev.reservoirs[id].heat,
                         RSum([x \in SinksOfGroup(aux.prev, id) |->
                                 RAdd(MapGet(aux.mid.sourceInputs, hexCubeKey(x.pos), Zero),
                                      MapGet(aux.mid.deltaE, hexCubeKey(x.pos), Zero))],
                              SinksOfGroup(aux.prev, id)))
        /\ \A x \in EntitiesOfType(aux.prev, "sink") :
              hexCubeKey(x.pos) \in DOMAIN aux.mid.Einjected =>
                  aux.mid.EbeforeExtraction[hexCubeKey(x.pos)]
                      = IF x.groupId \in DOMAIN aux.prev.reservoirs
                        THEN ReservoirTemp(aux.mid.reservoirs[x.groupId])
                        ELSE aux.mid.Einjected[hexCubeKey(x.pos)]

\* a tick in which two sinks of one group both pass a non-zero diffusion
\* delta to their reservoir, whose radiator then sheds heat
C28_Witness ==
    /\ AfterTick
    /\ \E x, y \in EntitiesOfType(aux.prev, "sink") :
          /\ x # y
          /\ x.groupId = y.groupId
          /\ x.groupId \in DOMAIN aux.prev.reservoirs
          /\ aux.mid.deltaE[hexCubeKey(x.pos)] # Zero
          /\ aux.mid.deltaE[hexCubeKey(y.pos)] # Zero
          /\ aux.mid.deltaE[hexCubeKey(x.pos)] # aux.mid.deltaE[hexCubeKey(y.pos)]
          /\ aux.mid.reservoirs[x.groupId].heat # aux.mid.reservoirsExchanged[x.groupId].heat

\* a tick in which a sink without a reservoir has a non-zero diffusion
\* delta and its cell keeps the value it had
C28_NoReservoirWitness ==
    /\ AfterTick
    /\ \E x \in EntitiesOfType(aux.prev, "sink") :
          /\ hexCubeKey(x.pos) \in DOMAIN aux.mid.Einjected
          /\ x.groupId \notin DOMAIN aux.prev.reservoirs
          /\ aux.mid.deltaE[hexCubeKey(x.pos)] # Zero

\* the heat the radiator of reservoir id took in the last tick
LossOf(id) == RSub(aux.mid.reservoirsExchanged[id].heat, aux.mid.reservoirs[id].heat)

\* C29 (radiator loss): in each tick, after accumulation, a reservoir whose
\* radiator is deployed loses min(heat, strength); the loss is never
\* negative, never exceeds strength, and never drives heat below 0; a
\* reservoir whose radiator is not deployed loses nothing.  This holds for
\* every reachable reservoir heat, including heat made negative by
\* diffusion.
C29_RadiatorLoss ==
    AfterTick =>
        \A id \in DOMAIN aux.prev.reservoirs :
            LET res == aux.mid.reservoirsExchanged[id]
            IN  IF res.radiator.deployed
                THEN /\ LossOf(id) = RMin(res.heat, res.radiator.strength)
                     /\ RLe(Zero, LossOf(id))
                     /\ RLe(LossOf(id), res.radiator.strength)
                     /\ RLe(Zero, res.heat) => RLe(Zero, aux.mid.reservoirs[id].heat)
                ELSE LossOf(id) = Zero

\* the part of C29 that reads the loss off the code: min(heat, strength)
\* when deployed, nothing otherwise, and never more than strength
C29_LossFormula ==
    AfterTick =>
        \A id \in DOMAIN aux.prev.reservoirs :
            LET res == aux.mid.reservoirsExchanged[id]
            IN  IF res.radiator.deployed
                THEN /\ LossOf(id) = RMin(res.heat, res.radiator.strength)
                     /\ RLe(LossOf(id), res.radiator.strength)
                     /\ RLe(Zero, res.heat) => RLe(Zero, aux.mid.reservoirs[id].heat)
                ELSE LossOf(id) = Zero

\* the cells of processed group g, their mean before extraction, and the
\* excess of the cells above the mean
MembersOf(g) == DOMAIN aux.mid.extraction[g].change

MeanOf(g) ==
    RDiv(RSum([k \in MembersOf(g) |-> aux.mid.EbeforeExtraction[k]], MembersOf(g)),
         I(Cardinality(MembersOf(g))))

TotalExcessOf(g) ==
    RSum([k \in MembersOf(g) |->
            IF RLt(MeanOf(g), aux.mid.EbeforeExtraction[k])
            THEN RSub(aux.mid.EbeforeExtraction[k], MeanOf(g)) ELSE Zero], MembersOf(g))

\* totalExcess * throttle * 0.9
WantedMove(g) ==
    RMul(RMul(TotalExcessOf(g), aux.mid.effectiveProbeThrottles[g]), <<9, 10>>)

\* capacity minus stored after this tick's drain
Headroom(g) == RSub(aux.mid.capsDrained[g].capacity, aux.mid.capsDrained[g].stored)

C30_UnclampedWitness ==
    /\ AfterTick
    /\ \E g \in ProcessedGroups :
          /\ g \notin DOMAIN aux.prev.capacitors
          /\ RLt(Zero, aux.mid.extraction[g].qMove)

\* the obstacles of a tick read off its two ends: the shields that are
\* intact in the state the tick returned and whose group is not disabled
StandingShields ==
    { k \in DOMAIN aux.prev.entities :
        /\ aux.prev.entities[k].type = "shield"
        /\ ~state.entities[k].destroyed
        /\ ~(aux.prev.entities[k].groupId # NoGroup
               /\ aux.prev.entities[k].groupId \in aux.prev.disabledShieldGroups) }

\* some active, intact source sees the probe past the standing shields
Exposed(p) ==
    \E src \in EntitiesOfType(aux.prev, "source") :
        /\ src.active
        /\ ~src.destroyed
        /\ hexCornerLOS(p.pos, src.pos, StandingShields) # NaN

\* the probes that reach the LOS check intact
ProbesReachingLOS ==
    { p \in EntitiesOfType(aux.prev, "probe") :
        /\ ~p.destroyed
        /\ hexCubeKey(p.pos) \notin NewlyDestroyed(aux.prev, aux.rolls, "probe") }

C31_ShadowWitness ==
    /\ AfterTick
    /\ StandingShields # {}
    /\ \E p, q \in ProbesReachingLOS :
          /\ state.entities[hexCubeKey(p.pos)].destroyed
          /\ ~state.entities[hexCubeKey(q.pos)].destroyed
          /\ \E src \in EntitiesOfType(aux.prev, "source") : src.active

\* the probes of group g that are intact in the state the tick returned,
\* on cells of the field
LiveMembers(g) ==
    { k \in DOMAIN aux.mid.EbeforeExtraction :
        /\ k \in DOMAIN aux.prev.entities
        /\ aux.prev.entities[k].type = "probe"
        /\ ProbeGroupOf(aux.prev.entities[k]) = g
        /\ ~state.entities[k].destroyed }

\* the cells of the probes the returned state shows destroyed
DeadProbeCells ==
    { k \in DOMAIN aux.mid.EbeforeExtraction :
        /\ k \in DOMAIN aux.prev.entities
        /\ aux.prev.entities[k].type = "probe"
        /\ state.entities[k].destroyed }

\* the probes destroyed by this very tick, by overheat or by LOS
DestroyedThisTick ==
    { k \in DeadProbeCells : ~aux.prev.entities[k].destroyed }

ProbeGroupIds == { ProbeGroupOf(p) : p \in EntitiesOfType(aux.prev, "probe") }

Collected(g) == g \in DOMAIN state.lastTickEnergy

\* C32 (destroyed probes sit out): a probe destroyed in this tick, by
\* overheat or by LOS, or in an earlier tick takes no part in this tick's
\* extraction: a group collects only with two or more intact members, the
\* mean is taken over the intact members, and extraction leaves the cell of
\* a destroyed probe at the value it had before extraction.
C32_DestroyedSitOut ==
    AfterTick =>
        /\ \A k \in DeadProbeCells :
              aux.mid.Eextracted[k] = aux.mid.EbeforeExtraction[k]
        /\ \A g \in ProbeGroupIds :
              Collected(g) =>
                  /\ Cardinality(LiveMembers(g)) >= 2
                  /\ aux.mid.extraction[g].mean =
                        RDiv(RSum(aux.mid.EbeforeExtraction, LiveMembers(g)),
                             I(Cardinality(LiveMembers(g))))

\* a tick that destroyed a probe whose cell was off the mean of the two
\* intact members that went on to collect
C32_Witness ==
    /\ AfterTick
    /\ \E k \in DestroyedThisTick :
          LET g == ProbeGroupOf(aux.prev.entities[k])
          IN  /\ Collected(g)
              /\ Cardinality(LiveMembers(g)) = 2
              /\ aux.mid.EbeforeExtraction[k] # aux.mid.extraction[g].mean
              /\ RLt(Zero, state.lastTickEnergy[g])

\* a tick whose LOS check destroyed the probes of a group that had two
\* members on uneven cells and a throttle of 1: nothing is collected
C32_BelowMinimumWitness ==
    /\ AfterTick
    /\ \E g \in ProbeGroupIds :
          /\ ~Collected(g)
          /\ RLt(Zero, MapGet(aux.mid.effectiveProbeThrottles, g, Zero))
          /\ Cardinality(LiveMembers(g)) < 2
          /\ \E a, b \in DestroyedThisTick :
                /\ a # b
                /\ a \notin aux.rolls /\ b \notin aux.rolls
                /\ ProbeGroupOf(aux.prev.entities[a]) = g
                /\ ProbeGroupOf(aux.prev.entities[b]) = g
                /\ aux.mid.EbeforeExtraction[a] # aux.mid.EbeforeExtraction[b]

\* the throttle a group runs at: 0 without an entry in probeThrottles and 0
\* when its capacitor was full at the start of the tick
ThrottleOf(g) ==
    IF g \in DOMAIN aux.prev.capacitors
       /\ RLe(aux.prev.capacitors[g].capacity, aux.prev.capacitors[g].stored)
    THEN Zero
    ELSE IF g \in DOMAIN aux.prev.probeThrottles THEN aux.prev.probeThrottles[g] ELSE Zero

\* the excess of the intact members above their mean, before extraction
LiveMean(g) ==
    RDiv(RSum(aux.mid.EbeforeExtraction, LiveMembers(g)), I(Cardinality(LiveMembers(g))))

LiveExcess(g) ==
    RSum([k \in LiveMembers(g) |->
            RMax(Zero, RSub(aux.mid.EbeforeExtraction[k], LiveMean(g)))], LiveMembers(g))

\* capacity minus the charge left by this tick's drain, read off the prior
\* state
RoomAfterDrain(g) ==
    RSub(aux.prev.capacitors[g].capacity,
         RMin(aux.prev.capacitors[g].capacity,
              RMax(Zero, RSub(aux.prev.capacitors[g].stored, aux.prev.capacitors[g].drainRate))))

\* the probe cells of group g, intact or not
ProbeCells(g) ==
    { k \in DOMAIN aux.prev.entities :
        aux.prev.entities[k].type = "probe" /\ ProbeGroupOf(aux.prev.entities[k]) = g }

ExtractionPreconditions(g) ==
    /\ RLt(Zero, ThrottleOf(g))
    /\ Cardinality(LiveMembers(g)) >= 2
    /\ RLe(<<1, 10000>>, LiveExcess(g))
    /\ g \in DOMAIN aux.prev.capacitors => RLt(Zero, RoomAfterDrain(g))

\* C33 (extraction preconditions): in a tick a probe group records no
\* collected energy and changes no field value unless its effective
\* throttle is > 0 (no probe-throttle entry counts as 0), at least two of
\* its non-destroyed probes are on cells of the field, the total excess
\* above the group mean is at least 1e-4, and its capacitor, if it has one,
\* has headroom > 0 after the drain.
C33_ExtractionGuards ==
    AfterTick =>
        \A g \in ProbeGroupIds :
            (Collected(g)
             \/ \E k \in ProbeCells(g) \cap DOMAIN aux.mid.EbeforeExtraction :
                   aux.mid.Eextracted[k] # aux.mid.EbeforeExtraction[k])
                => ExtractionPreconditions(g)

\* a tick on a board without a probe-throttle entry: two intact probes of
\* one group on cells 1e-4 or more apart, no full capacitor, and nothing
\* collected
C33_Witness ==
    /\ AfterTick
    /\ \E g \in ProbeGroupIds :
          /\ g \notin DOMAIN aux.prev.probeThrottles
          /\ Cardinality(LiveMembers(g)) >= 2
          /\ RLe(<<1, 10000>>, LiveExcess(g))
          /\ g \in DOMAIN aux.prev.capacitors => RLt(Zero, RoomAfterDrain(g))
          /\ ~Collected(g)
          /\ \A k \in ProbeCells(g) \cap DOMAIN aux.mid.EbeforeExtraction :
                aux.mid.Eextracted[k] = aux.mid.EbeforeExtraction[k]

\* a tick in which a throttled-up group with two intact probes sat out
\* because its cells were level
C33_EquilibriumWitness ==
    /\ AfterTick
    /\ \E g \in ProbeGroupIds :
          /\ RLt(Zero, ThrottleOf(g))
          /\ Cardinality(LiveMembers(g)) >= 2
          /\ RLt(LiveExcess(g), <<1, 10000>>)
          /\ ~Collected(g)

\* a tick in which a group met the four preconditions and collected
C33_CollectedWitness ==
    /\ AfterTick
    /\ \E g \in ProbeGroupIds : ExtractionPreconditions(g) /\ Collected(g)

\* the four preconditions are also sufficient
C33_Sufficient ==
    AfterTick => \A g \in ProbeGroupIds : ExtractionPreconditions(g) => Collected(g)

\* a tick in which a group at throttle 1 sat out with a total excess above
\* 0 and below 1e-4
C33_BelowCutoffWitness ==
    /\ AfterTick
    /\ \E g \in ProbeGroupIds :
          /\ RLt(Zero, ThrottleOf(g))
          /\ Cardinality(LiveMembers(g)) >= 2
          /\ RLt(Zero, LiveExcess(g))
          /\ RLt(LiveExcess(g), <<1, 10000>>)
          /\ ~Collected(g)

\* a tick in which a group collected with a total excess of exactly 1e-4
C33_AtCutoffWitness ==
    /\ AfterTick
    /\ \E g \in ProbeGroupIds : LiveExcess(g) = <<1, 10000>> /\ Collected(g)

\* min(capacity, max(0, stored - drainRate))
DrainedCharge(cap) == RMin(cap.capacity, RMax(Zero, RSub(cap.stored, cap.drainRate)))

\* the charge every bank holds when extraction starts, and the charge a
\* bank whose group collected nothing holds when the tick returns
DrainStep ==
    AfterTick =>
        \A id \in DOMAIN aux.prev.capacitors :
            /\ aux.mid.capsDrained[id].stored = DrainedCharge(aux.prev.capacitors[id])
            /\ ~Collected(id) =>
                  state.capacitors[id].stored = DrainedCharge(aux.prev.capacitors[id])

\* the bank of group id is empty, or has no drain
Flat(id) ==
    id \in DOMAIN state.capacitors /\ RLt(Zero, state.capacitors[id].drainRate)
        => state.capacitors[id].stored = Zero

\* C34 (capacitor drain): in every tick, before extraction, each
\* capacitor's stored charge becomes min(capacity, max(0, stored -
\* drainRate)), whether or not its group has probes; hence a capacitor with
\* drainRate > 0 whose group collects nothing reaches stored = 0 after
\* finitely many ticks and stays at 0.
C34_CapacitorDrain ==
    /\ []DrainStep
    /\ \A id \in 1 .. MaxGroup : ([]~Collected(id)) => <>[]Flat(id)

\* a tick that emptied a bank with a positive drain whose group has no
\* probe, after an earlier tick had already drained it in part
C34_Witness ==
    /\ AfterTick
    /\ state.tickCount >= 2
    /\ \E id \in DOMAIN state.capacitors :
          /\ ProbeCells(id) = {}
          /\ RLt(Zero, state.capacitors[id].drainRate)
          /\ RLt(Zero, aux.prev.capacitors[id].stored)
          /\ RLt(aux.prev.capacitors[id].stored, state.capacitors[id].capacity)
          /\ state.capacitors[id].stored = Zero

\* a tick after which a draining bank is not empty because its group
\* collected
C34_RefilledWitness ==
    /\ AfterTick
    /\ \E id \in DOMAIN state.capacitors :
          /\ Collected(id)
          /\ RLt(Zero, state.capacitors[id].drainRate)
          /\ aux.mid.capsDrained[id].stored = Zero
          /\ RLt(Zero, state.capacitors[id].stored)

\* an entity of the returned state is the entity of the prior state, but
\* for a destroyed flag that may have gone from unset to set
SameButDestroyed(old, new) ==
    /\ [new EXCEPT !.destroyed = old.destroyed] = old
    /\ old.destroyed => new.destroyed

SameButStored(old, new) == [new EXCEPT !.stored = old.stored] = old

SameButHeat(old, new) == [new EXCEPT !.heat = old.heat] = old

\* the probes the state s shows destroyed
DestroyedProbesIn(s) ==
    { k \in DOMAIN s.entities : s.entities[k].type = "probe" /\ s.entities[k].destroyed }

\* the tick the same input gets when every failure trial comes out
\* "survive" destroys the same probes and returns another field
FieldMovedByDestruction ==
    LET calm == tickSimulation(aux.prev, {}).nextState
    IN  /\ DestroyedProbesIn(calm) = DestroyedProbesIn(state)
        /\ calm.E # state.E

\* C35 (frame of a tick): a tick changes only field values, destroyed flags
\* (from unset to set), capacitor stored, reservoir heat, the diagnostics
\* and tickCount.  The entity keys, every entity's type, position, group
\* and parameters, each capacitor's capacity, drainRate and surchargeCost,
\* each reservoir's volume and radiator, both throttle maps, the disabled
\* groups and the configuration are the same, and destroying an entity
\* does not by itself change a field value.
C35_TickFrame ==
    AfterTick =>
        /\ DOMAIN state.entities = DOMAIN aux.prev.entities
        /\ \A k \in DOMAIN aux.prev.entities \cap DOMAIN state.entities :
              SameButDestroyed(aux.prev.entities[k], state.entities[k])
        /\ DOMAIN state.capacitors = DOMAIN aux.prev.capacitors
        /\ \A id \in DOMAIN aux.prev.capacitors :
              SameButStored(aux.prev.capacitors[id], state.capacitors[id])
        /\ DOMAIN state.reservoirs = DOMAIN aux.prev.reservoirs
        /\ \A id \in DOMAIN aux.prev.reservoirs :
              SameButHeat(aux.prev.reservoirs[id], state.reservoirs[id])
        /\ state.groupThrottles = aux.prev.groupThrottles
        /\ state.probeThrottles = aux.prev.probeThrottles
        /\ state.disabledShieldGroups = aux.prev.disabledShieldGroups
        /\ state.radius = aux.prev.radius
        /\ state.diffusionAlpha = aux.prev.diffusionAlpha
        /\ state.baseConductivity = aux.prev.baseConductivity
        /\ aux.rolls # {} => ~FieldMovedByDestruction

\* a tick that destroyed a shield or a sink on a board whose field, banks
\* or reservoirs it also changed
C35_Witness ==
    /\ AfterTick
    /\ \E k \in DOMAIN aux.prev.entities :
          /\ aux.prev.entities[k].type \in {"shield", "sink"}
          /\ ~aux.prev.entities[k].destroyed
          /\ state.entities[k].destroyed
    /\ state.E # aux.prev.E
    /\ state.tickCount = aux.prev.tickCount + 1

\* a tick that changed the heat of a reservoir and nothing else of it
C35_ReservoirWitness ==
    /\ AfterTick
    /\ \E id \in DOMAIN aux.prev.reservoirs :
          /\ state.reservoirs[id].heat # aux.prev.reservoirs[id].heat
          /\ aux.prev.reservoirs[id].radiator.deployed

\* a tick that changed the charge of a bank and nothing else of it
C35_BankWitness ==
    /\ AfterTick
    /\ \E id \in DOMAIN aux.prev.capacitors :
          state.capacitors[id].stored # aux.prev.capacitors[id].stored

\* a tick that destroyed a probe by LOS and kept the rest of the entity
C35_LosWitness ==
    /\ AfterTick
    /\ \E k \in DestroyedThisTick : k \notin aux.rolls

\* the cumulative total of group g in state s, 0 without an entry
TotalOf(s, g) == IF g \in DOMAIN s.totalEnergyCollected THEN s.totalEnergyCollected[g] ELSE Zero

\* the energy recorded for group g in this tick, 0 if it did not extract
RecordedFor(g) == IF g \in DOMAIN state.lastTickEnergy THEN state.lastTickEnergy[g] ELSE Zero

TotalledGroups == (DOMAIN state.totalEnergyCollected) \cup (DOMAIN aux.prev.totalEnergyCollected)

\* C36 (monotone counters): every tick increases tickCount by exactly 1,
\* and each group's cumulative totalEnergyCollected after the tick is its
\* value before plus the energy recorded for it in lastTickEnergy (a group
\* that did not extract keeps its total); no step, tick or discharge,
\* lowers tickCount or a cumulative total.
C36_MonotoneCounters ==
    /\ AfterTick =>
          /\ state.tickCount = aux.prev.tickCount + 1
          /\ DOMAIN state.totalEnergyCollected =
                (DOMAIN aux.prev.totalEnergyCollected) \cup DOMAIN state.lastTickEnergy
          /\ \A g \in TotalledGroups :
                /\ TotalOf(state, g) = RAdd(TotalOf(aux.prev, g), RecordedFor(g))
                /\ g \notin DOMAIN state.lastTickEnergy =>
                      state.totalEnergyCollected[g] = aux.prev.totalEnergyCollected[g]
    /\ aux.op # "init" =>
          /\ state.tickCount >= aux.prev.tickCount
          /\ \A g \in TotalledGroups : RLe(TotalOf(aux.prev, g), TotalOf(state, g))

\* a second tick in which a group that had already collected in the first
\* collected again: its total is the sum of the two
C36_Witness ==
    /\ AfterTick
    /\ state.tickCount = 2
    /\ \E g \in DOMAIN state.lastTickEnergy :
          /\ RLt(Zero, TotalOf(aux.prev, g))
          /\ RLt(Zero, state.lastTickEnergy[g])
          /\ RLt(state.lastTickEnergy[g], state.totalEnergyCollected[g])

\* a second tick in which a group that had collected in the first did not
\* extract and kept its total
C36_KeptWitness ==
    /\ AfterTick
    /\ \E g \in DOMAIN aux.prev.totalEnergyCollected :
          /\ g \notin DOMAIN state.lastTickEnergy
          /\ RLt(Zero, state.totalEnergyCollected[g])

\* the groups that collected in this tick at an effective throttle in (0, 1]
ThrottledGroups ==
    { g \in ProbeGroupIds :
        Collected(g) /\ RLt(Zero, ThrottleOf(g)) /\ RLe(ThrottleOf(g), One) }

\* C37 (no overshoot in extraction): for a processed probe group with
\* effective throttle in (0, 1], every member cell that was above the group
\* mean before extraction is at or above that mean after it, and every
\* member cell that was below it is at or below it.
C37_NoOvershoot ==
    AfterTick =>
        \A g \in ThrottledGroups :
            \A k \in LiveMembers(g) :
                /\ RLt(LiveMean(g), aux.mid.EbeforeExtraction[k])
                      => RLe(LiveMean(g), aux.mid.Eextracted[k])
                /\ RLt(aux.mid.EbeforeExtraction[k], LiveMean(g))
                      => RLe(aux.mid.Eextracted[k], LiveMean(g))

\* a tick at throttle 1 on a group of three with two cells on one side of
\* the mean at different distances from it: each moved towards the mean
\* and none crossed it
C37_Witness ==
    /\ AfterTick
    /\ \E g \in ThrottledGroups :
          /\ ThrottleOf(g) = One
          /\ \E a, b, c \in LiveMembers(g) :
                /\ RLt(aux.mid.EbeforeExtraction[a], aux.mid.EbeforeExtraction[b])
                /\ RLt(aux.mid.EbeforeExtraction[b], aux.mid.EbeforeExtraction[c])
                /\ aux.mid.EbeforeExtraction[b] # LiveMean(g)
                /\ RLt(aux.mid.EbeforeExtraction[a], aux.mid.Eextracted[a])
                /\ RLt(aux.mid.Eextracted[c], aux.mid.EbeforeExtraction[c])
                /\ aux.mid.Eextracted[b] # aux.mid.EbeforeExtraction[b]

\* the field cells that hold a sink whose group has no reservoir
OrphanSinkCells ==
    { k \in (DOMAIN aux.prev.entities) \cap DOMAIN aux.prev.E :
        /\ aux.prev.entities[k].type = "sink"
        /\ aux.prev.entities[k].groupId \notin DOMAIN aux.prev.reservoirs }

SourceInputAt(k) == IF k \in DOMAIN aux.mid.sourceInputs THEN aux.mid.sourceInputs[k] ELSE Zero

\* the diffusion delta of cell n in the field that lacks cell k
DeltaWithout(k, n) ==
    DeltaE([c \in (DOMAIN aux.mid.Einjected) \ {k} |-> aux.mid.Einjected[c]],
           aux.mid.conductivityByKey, aux.prev.diffusionAlpha)[n]

\* alpha * min(k(n), k(k)) * (E(k) - E(n)), E(k) being the pre-tick value
\* of the sink cell plus its source input
FluxAgainst(k, n) ==
    RMul(RMul(aux.prev.diffusionAlpha,
              RMin(aux.mid.conductivityByKey[n], aux.mid.conductivityByKey[k])),
         RSub(RAdd(aux.prev.E[k], SourceInputAt(k)), aux.mid.Einjected[n]))

\* the heat a reservoir holds after the exchange is what it held plus the
\* source input and the diffusion delta of the sinks of its own group
OwnSinksOnly(id) ==
    LET own == { c \in DOMAIN aux.prev.entities :
                   /\ aux.prev.entities[c].type = "sink"
                   /\ aux.prev.entities[c].groupId = id }
    IN  aux.mid.reservoirsExchanged[id].heat =
            RAdd(aux.prev.reservoirs[id].heat,
                 RSum([c \in own |-> RAdd(SourceInputAt(c), MapGet(aux.mid.deltaE, c, Zero))], own))

\* C38 (sink without a reservoir): the tick leaves the cell of a sink whose
\* group has no entry in the reservoir map at its pre-tick value plus any
\* source input; its diffusion delta goes neither to the cell nor to any
\* reservoir, while each neighbour receives the flux computed against it.
C38_OrphanSink ==
    AfterTick =>
        \A k \in OrphanSinkCells :
            /\ state.E[k] = RAdd(aux.prev.E[k], SourceInputAt(k))
            /\ \A id \in DOMAIN aux.prev.reservoirs : OwnSinksOnly(id)
            /\ \A n \in InDomainNeighbours(aux.mid.Einjected, k) :
                  /\ aux.mid.deltaE[n] = RAdd(DeltaWithout(k, n), FluxAgainst(k, n))
                  /\ n \notin SinkKeys(aux.prev) =>
                        aux.mid.EbeforeExtraction[n]
                            = RAdd(aux.mid.Einjected[n], aux.mid.deltaE[n])

\* a tick on a board with a reservoir of another group: the sink cell had a
\* diffusion delta other than 0 and kept its value, and a neighbour beside
\* it changed by a delta that holds a flux against it other than 0
C38_Witness ==
    /\ AfterTick
    /\ aux.prev.reservoirs # <<>>
    /\ \E k \in OrphanSinkCells :
          /\ aux.mid.deltaE[k] # Zero
          /\ state.E[k] = aux.prev.E[k]
          /\ \E n \in InDomainNeighbours(aux.mid.Einjected, k) \ SinkKeys(aux.prev) :
                /\ FluxAgainst(k, n) # Zero
                /\ DeltaWithout(k, n) # Zero
                /\ state.E[n] = RAdd(aux.mid.Einjected[n], aux.mid.deltaE[n])
====
